---- MODULE Spec2Model ----
(***************************************************************************)
(* The simulation core of idle-ant-farm: the game store (resource pools,   *)
(* caps, conversions, storage upgrades, offline progress, reset) and the   *)
(* prestige store (prestige points, the prestige shop, replay of purchased *)
(* upgrades), with the achievement store and the timer of the game loop.   *)
(*                                                                         *)
(* Numbers.  The stores hold JavaScript numbers.  A value the code keeps   *)
(* whole (a floored cost, a count) is an integer here; every other value   *)
(* is an exact fraction <<n, d>> with d > 0 in lowest terms, so that       *)
(* x * 1.2 is x * 6/5 and a 1-second tick adds rate * queens / 60.  The    *)
(* model computes with the exact values where the code computes with       *)
(* doubles, except for the prestige threshold, whose rounding it keeps.    *)
(***************************************************************************)
EXTENDS Integers, Sequences, FiniteSets, TLC

VARIABLES game, prestige, idb, pending, now, toasts, last, steps,
          achievements, timers, settings, savedPrestige

vars == <<steps, game, prestige, idb, pending, now, toasts,
          achievements, timers, settings, savedPrestige, last>>

----------------------------------------------------------------------------
(* Bounds of the model.                                                    *)

\* The number of calls (user actions, timer ticks, clock moves) of a behaviour
\* of each specification; the resolutions of the awaits they start come on top.
MaxLedgerCalls == 4

MaxShopCalls == 4

MaxPrestigeCalls == 4

\* The number of async calls in flight at a time.
MaxInFlight == 1

----------------------------------------------------------------------------
(* Exact fractions.                                                        *)

RECURSIVE Gcd(_, _)
Gcd(a, b) == IF b = 0 THEN a ELSE Gcd(b, a % b)

Abs(a) == IF a < 0 THEN 0 - a ELSE a

\* The fraction n/d (d # 0) in lowest terms with a positive denominator.
Q(n, d) ==
  LET g == Gcd(Abs(n), Abs(d))
      s == IF d < 0 THEN 0 - 1 ELSE 1
  IN  <<(s * n) \div g, (s * d) \div g>>

R(n) == <<n, 1>>

RAdd(a, b) == Q(a[1] * b[2] + b[1] * a[2], a[2] * b[2])
RSub(a, b) == Q(a[1] * b[2] - b[1] * a[2], a[2] * b[2])
RMul(a, b) == Q(a[1] * b[1], a[2] * b[2])
RDiv(a, b) == Q(a[1] * b[2], a[2] * b[1])
RLt(a, b) == a[1] * b[2] < b[1] * a[2]
RLe(a, b) == a[1] * b[2] =< b[1] * a[2]
RGe(a, b) == RLe(b, a)
RGt(a, b) == RLt(b, a)
\* Math.min
RMin(a, b) == IF RLt(b, a) THEN b ELSE a
\* Math.max
RMax(a, b) == IF RLt(a, b) THEN b ELSE a
\* Math.floor, as an integer
Floor(a) == a[1] \div a[2]
IsWhole(a) == a[2] = 1

----------------------------------------------------------------------------
(* The game store: its state after construction.                           *)

\* state.prestigeShop: the cost of each entry of the game store's own shop.
GameShop ==
  [storageUpgrade |-> R(10), productionBoost |-> R(15),
   queenEfficiency |-> R(20), betterAnts |-> R(100)]

GameShopIds == DOMAIN GameShop

\* gameLoopInterval: null; the handles setInterval returns are 1, 2, ...
NoTimer == 0

GameState0 ==
  [loaded |-> FALSE,
   larvae |-> R(0), ants |-> R(0), seeds |-> R(10), queens |-> 1,
   lastSavedTime |-> 0,
   maxSeeds |-> R(1000), maxLarvae |-> R(10),
   initialMaxSeeds |-> R(1000), initialMaxLarvae |-> R(10),
   seedStorageUpgradeCost |-> 500, larvaeStorageUpgradeCost |-> 100,
   storageUpgradeFactor |-> Q(6, 5), upgradeCostFactor |-> Q(13, 10),
   larvaeProductionRate |-> R(1), collectionRatePerAnt |-> R(60),
   seedCostPerLarva |-> R(100), seedCostPerAnt |-> R(50),
   larvaCostPerAnt |-> R(1), antCostPerQueen |-> R(100),
   seedCostPerQueen |-> R(250),
   prestigePoints |-> R(0), purchasedUpgrades |-> <<>>,
   prestigeShop |-> GameShop,
   autoLarvaeCreation |-> FALSE,
   attackPerAnt |-> R(2), healthPerAnt |-> R(10), defensePerAnt |-> R(1),
   gameLoopInterval |-> NoTimer]

\* The fields of the game store that the prestige store's upgrade effects write
\* and the game store of src/ does not declare.  Their initial values are not
\* in src/: maxAnts is counted in units of its initial value, maxQueens and
\* maxEliteAnts as the increase over theirs.
StorageExt0 ==
  [maxAnts |-> R(1), maxQueens |-> 0, maxEliteAnts |-> 0,
   eliteAntsUnlocked |-> FALSE, royalJellyUnlocked |-> FALSE]

----------------------------------------------------------------------------
(* The game store: conversions.  Each operator maps the store before the   *)
(* call to the store after it.                                             *)

\* createLarvae with the cap test moved after the payment: the seeds are
\* taken whenever they suffice, the larva is added only below the cap.
createLarvaePayFirst(g) ==
  IF RGe(g.seeds, g.seedCostPerLarva)
  THEN [g EXCEPT !.larvae = IF RLt(g.larvae, g.maxLarvae)
                            THEN RAdd(g.larvae, R(1)) ELSE g.larvae,
                 !.seeds = RSub(g.seeds, g.seedCostPerLarva)]
  ELSE g

createLarvae(g) ==
  IF RGe(g.seeds, g.seedCostPerLarva) /\ RLt(g.larvae, g.maxLarvae)
  THEN [g EXCEPT !.larvae = RAdd(g.larvae, R(1)),
                 !.seeds = RSub(g.seeds, g.seedCostPerLarva)]
  ELSE g

createMaxLarvae(g) ==
  LET maxLarvaeToCreate ==
        RMin(R(Floor(RDiv(g.seeds, g.seedCostPerLarva))),
             RSub(g.maxLarvae, g.larvae))
  IN  IF RGt(maxLarvaeToCreate, R(0))
      THEN [g EXCEPT !.larvae = RAdd(g.larvae, maxLarvaeToCreate),
                     !.seeds = RSub(g.seeds,
                                    RMul(maxLarvaeToCreate, g.seedCostPerLarva))]
      ELSE g

createAnts(g) ==
  IF RGe(g.larvae, g.larvaCostPerAnt) /\ RGe(g.seeds, g.seedCostPerAnt)
  THEN [g EXCEPT !.ants = RAdd(g.ants, R(1)),
                 !.larvae = RSub(g.larvae, g.larvaCostPerAnt),
                 !.seeds = RSub(g.seeds, g.seedCostPerAnt)]
  ELSE g

createMaxAnts(g) ==
  LET maxAntsByLarvae == g.larvae
      maxAntsBySeeds == R(Floor(RDiv(g.seeds, g.seedCostPerAnt)))
      maxAntsToCreate == RMin(maxAntsByLarvae, maxAntsBySeeds)
  IN  IF RGt(maxAntsToCreate, R(0))
      THEN [g EXCEPT !.larvae = RSub(g.larvae,
                                     RMul(maxAntsToCreate, g.larvaCostPerAnt)),
                     !.seeds = RSub(g.seeds,
                                    RMul(maxAntsToCreate, g.seedCostPerAnt)),
                     !.ants = RAdd(g.ants, maxAntsToCreate)]
      ELSE g

buyQueen(g) ==
  IF RGe(g.ants, g.antCostPerQueen) /\ RGe(g.seeds, g.seedCostPerQueen)
  THEN [g EXCEPT !.queens = g.queens + 1,
                 !.ants = RSub(g.ants, g.antCostPerQueen),
                 !.seeds = RSub(g.seeds, g.seedCostPerQueen)]
  ELSE g

buyMaxQueens(g) ==
  LET maxQueensByAnts == Floor(RDiv(g.ants, g.antCostPerQueen))
      maxQueensBySeeds == Floor(RDiv(g.seeds, g.seedCostPerQueen))
      maxQueensToBuy == IF maxQueensBySeeds < maxQueensByAnts
                        THEN maxQueensBySeeds ELSE maxQueensByAnts
  IN  IF maxQueensToBuy > 0
      THEN [g EXCEPT !.ants = RSub(g.ants,
                                   RMul(R(maxQueensToBuy), g.antCostPerQueen)),
                     !.seeds = RSub(g.seeds,
                                    RMul(R(maxQueensToBuy), g.seedCostPerQueen)),
                     !.queens = g.queens + maxQueensToBuy]
      ELSE g

\* Seeds collected per click.
manualSeedCollectionRate == 10

collectSeedsManually(g, amount) ==
  LET seedsToAdd == RMin(R(manualSeedCollectionRate), RSub(g.maxSeeds, g.seeds))
  IN  IF amount > 0 /\ RLe(RAdd(g.seeds, seedsToAdd), g.maxSeeds)
      THEN [g EXCEPT !.seeds = RAdd(g.seeds, R(amount))]
      ELSE [g EXCEPT !.seeds = RAdd(g.seeds, seedsToAdd)]

\* upgradeSeedStorage with the cap left as it is.
upgradeSeedStorageKeepsCap(g) ==
  IF RGe(g.seeds, R(g.seedStorageUpgradeCost))
  THEN [g EXCEPT
         !.seeds = RSub(g.seeds, R(g.seedStorageUpgradeCost)),
         !.seedStorageUpgradeCost =
            Floor(RMul(R(g.seedStorageUpgradeCost), g.upgradeCostFactor))]
  ELSE g

upgradeSeedStorage(g) ==
  IF RGe(g.seeds, R(g.seedStorageUpgradeCost))
  THEN [g EXCEPT
         !.seeds = RSub(g.seeds, R(g.seedStorageUpgradeCost)),
         !.maxSeeds = R(Floor(RMul(g.maxSeeds, g.storageUpgradeFactor))),
         !.seedStorageUpgradeCost =
            Floor(RMul(R(g.seedStorageUpgradeCost), g.upgradeCostFactor))]
  ELSE g

upgradeLarvaeStorage(g) ==
  IF RGe(g.seeds, R(g.larvaeStorageUpgradeCost))
  THEN [g EXCEPT
         !.seeds = RSub(g.seeds, R(g.larvaeStorageUpgradeCost)),
         !.maxLarvae = R(Floor(RMul(g.maxLarvae, g.storageUpgradeFactor))),
         !.larvaeStorageUpgradeCost =
            Floor(RMul(R(g.larvaeStorageUpgradeCost), g.upgradeCostFactor))]
  ELSE g

\* calculateOfflineProgress without its last assignment.
calculateOfflineProgressKeepsTime(g, currentTime) ==
  LET timeElapsed == Q(currentTime - g.lastSavedTime, 60000)
      larvaeProduced ==
        RMin(R(Floor(RMul(RMul(timeElapsed, g.larvaeProductionRate),
                          R(g.queens)))),
             RSub(g.maxLarvae, g.larvae))
      seedsCollected ==
        RMin(R(Floor(RMul(RMul(timeElapsed, g.collectionRatePerAnt), g.ants))),
             RSub(g.maxSeeds, g.seeds))
  IN  [g EXCEPT !.larvae = RAdd(g.larvae, larvaeProduced),
                !.seeds = RAdd(g.seeds, seedsCollected)]

\* Date.now() is currentTime, in milliseconds.
calculateOfflineProgress(g, currentTime) ==
  LET timeElapsed == Q(currentTime - g.lastSavedTime, 60000)
      larvaeProduced ==
        RMin(R(Floor(RMul(RMul(timeElapsed, g.larvaeProductionRate),
                          R(g.queens)))),
             RSub(g.maxLarvae, g.larvae))
      seedsCollected ==
        RMin(R(Floor(RMul(RMul(timeElapsed, g.collectionRatePerAnt), g.ants))),
             RSub(g.maxSeeds, g.seeds))
  IN  [g EXCEPT !.larvae = RAdd(g.larvae, larvaeProduced),
                !.seeds = RAdd(g.seeds, seedsCollected),
                !.lastSavedTime = currentTime]

\* The tick with createMaxLarvae run before the production is added.
gameLoopTickCreateFirst(g) ==
  LET created == IF g.autoLarvaeCreation THEN createMaxLarvae(g) ELSE g
  IN  [created EXCEPT
        !.larvae = RMin(RAdd(created.larvae,
                             RDiv(RMul(created.larvaeProductionRate,
                                       R(created.queens)), R(60))),
                        created.maxLarvae),
        !.seeds = RMin(RAdd(created.seeds,
                            RDiv(RMul(created.collectionRatePerAnt, created.ants),
                                 R(60))),
                       created.maxSeeds)]

\* The body of the setInterval callback of startGameLoop: one 1-second tick.
gameLoopTick(g) ==
  LET produced ==
        [g EXCEPT
          !.larvae = RMin(RAdd(g.larvae,
                               RDiv(RMul(g.larvaeProductionRate, R(g.queens)),
                                    R(60))),
                          g.maxLarvae),
          !.seeds = RMin(RAdd(g.seeds,
                              RDiv(RMul(g.collectionRatePerAnt, g.ants), R(60))),
                         g.maxSeeds)]
  IN  IF produced.autoLarvaeCreation THEN createMaxLarvae(produced) ELSE produced

----------------------------------------------------------------------------
(* The game store: its own prestige (the store's earlier prestige code,    *)
(* still part of it).                                                      *)

\* Math.floor(Math.log10(x) / 2) for x >= 1.
RECURSIVE HalfLog10(_)
HalfLog10(x) == IF RLt(x, R(100)) THEN 0 ELSE 1 + HalfLog10(RDiv(x, R(100)))

IMax(a, b) == IF a < b THEN b ELSE a

gameCalculatePrestigePoints(g) ==
  LET fromLog == IMax(HalfLog10(RAdd(g.seeds, R(1))), 1)
      pointsFromSeeds == IF fromLog = 1 THEN 0 ELSE fromLog
      pointsFromAnts == Floor(RDiv(g.ants, R(200)))
      pointsFromQueens == IMax((g.queens - 1) * 2, 0)
  IN  pointsFromSeeds + pointsFromAnts + pointsFromQueens

gameApplyPrestigeUpgrade(g, upgradeId) ==
  CASE upgradeId = "storageUpgrade" ->
         [g EXCEPT !.maxSeeds = RMul(g.maxSeeds, Q(6, 5)),
                   !.maxLarvae = RMul(g.maxLarvae, Q(6, 5))]
    [] upgradeId = "productionBoost" ->
         [g EXCEPT !.larvaeProductionRate = RMul(g.larvaeProductionRate, Q(6, 5)),
                   !.collectionRatePerAnt = RMul(g.collectionRatePerAnt, Q(6, 5))]
    [] upgradeId = "queenEfficiency" ->
         [g EXCEPT !.larvaeProductionRate = RMul(g.larvaeProductionRate, Q(3, 2))]
    [] upgradeId = "autoLarvae" ->
         [g EXCEPT !.autoLarvaeCreation = TRUE]
    [] upgradeId = "betterAnts" ->
         [g EXCEPT !.attackPerAnt = RMul(g.attackPerAnt, Q(11, 10))]
    [] OTHER -> g

\* purchasedUpgrades.forEach(applyPrestigeUpgrade), from index i on.
RECURSIVE gameApplyFrom(_, _, _)
gameApplyFrom(g, ids, i) ==
  IF i > Len(ids) THEN g
  ELSE gameApplyFrom(gameApplyPrestigeUpgrade(g, ids[i]), ids, i + 1)

gameApplyPrestigeUpgrades(g) == gameApplyFrom(g, g.purchasedUpgrades, 1)

gameBuyUpgrade(g, upgradeId) ==
  IF upgradeId \in DOMAIN g.prestigeShop
     /\ RGe(g.prestigePoints, g.prestigeShop[upgradeId])
  THEN gameApplyPrestigeUpgrade(
         [g EXCEPT
           !.prestigePoints = RSub(g.prestigePoints, g.prestigeShop[upgradeId]),
           !.prestigeShop[upgradeId] = RMul(g.prestigeShop[upgradeId], Q(3, 2)),
           !.purchasedUpgrades = Append(g.purchasedUpgrades, upgradeId)],
         upgradeId)
  ELSE g

\* resetGameState with the two prestige fields cleared whatever debug is.
resetFieldsAndPrestige(g, debug, currentTime) ==
  [g EXCEPT !.larvae = R(0), !.ants = R(0), !.seeds = R(10),
            !.queens = 1,
            !.maxSeeds = g.initialMaxSeeds,
            !.maxLarvae = g.initialMaxLarvae,
            !.seedStorageUpgradeCost = 500,
            !.larvaeStorageUpgradeCost = 100,
            !.lastSavedTime = currentTime,
            !.healthPerAnt = R(10), !.attackPerAnt = R(2),
            !.defensePerAnt = R(1),
            !.prestigePoints = R(0), !.purchasedUpgrades = <<>>]

\* resetGameState, from the resolution of del('idleGameState') to the next
\* await (inventoryStore.resetInventoryState()).
resetFields(g, debug, currentTime) ==
  LET r == [g EXCEPT !.larvae = R(0), !.ants = R(0), !.seeds = R(10),
                     !.queens = 1,
                     !.maxSeeds = g.initialMaxSeeds,
                     !.maxLarvae = g.initialMaxLarvae,
                     !.seedStorageUpgradeCost = 500,
                     !.larvaeStorageUpgradeCost = 100,
                     !.lastSavedTime = currentTime,
                     !.healthPerAnt = R(10), !.attackPerAnt = R(2),
                     !.defensePerAnt = R(1)]
  IN  IF debug
      THEN [r EXCEPT !.prestigePoints = R(0), !.purchasedUpgrades = <<>>]
      ELSE r

----------------------------------------------------------------------------
(* The prestige store.                                                     *)

\* state.prestigeShop: the cost of each entry.
PrestigeShop ==
  [autoAnts |-> 20, autoQueens |-> 20, autoSeedStorageUpgrade |-> 10,
   autoEliteAntsCreation |-> 100, betterAnts |-> 50, betterAntsDefense |-> 50,
   startWithAnts |-> 15, eliteAnts |-> 500, storageUpgrade |-> 5,
   eliteAntsStoreUpgrade |-> 100, productionBoost |-> 10,
   queenEfficiency |-> 15, royalJelly |-> 1000, tunnels |-> 500]

ShopIds == DOMAIN PrestigeShop

\* The entries with oneTimePurchase: true.
OneTimePurchase ==
  {"autoAnts", "autoQueens", "autoSeedStorageUpgrade", "autoEliteAntsCreation",
   "eliteAnts", "royalJelly", "tunnels"}

\* The entries with applyOnPrestige: false.
NotAppliedOnPrestige == {"betterAnts", "betterAntsDefense"}

PrestigeState0 ==
  [prestigePoints |-> 0, timesPrestiged |-> 0, purchasedUpgrades |-> <<>>,
   prestigeShop |-> PrestigeShop,
   autoLarvaeCreation |-> FALSE, autoAntCreation |-> FALSE,
   autoEliteAntsCreation |-> FALSE, autoQueenCreation |-> FALSE,
   autoSeedStorageUpgrade |-> FALSE,
   antsFromPrestigeShop |-> 0,
   baseAntThreshold |-> 50, baseQueenThreshold |-> 2]

\* getter upgradePurchased
upgradePurchased(p, upgradeId) ==
  \E i \in 1..Len(p.purchasedUpgrades) : p.purchasedUpgrades[i] = upgradeId

\* getter amountOfUpgrade
amountOfUpgrade(p, upgradeId) ==
  Cardinality({i \in 1..Len(p.purchasedUpgrades) :
                 p.purchasedUpgrades[i] = upgradeId})

\* unlockedWhen with the tests of the current store moved by one: Elite Ants
\* after the fifth prestige is over, the three others with the fifth prestige.
unlockedWhenLate(p, upgradeId) ==
  CASE upgradeId = "eliteAnts" -> p.timesPrestiged > 5
    [] upgradeId \in {"autoEliteAntsCreation", "eliteAntsStoreUpgrade",
                      "royalJelly"} -> p.timesPrestiged >= 5
    [] OTHER -> TRUE

\* The unlockedWhen of a shop entry, evaluated on the current store.
unlockedWhen(p, upgradeId) ==
  CASE upgradeId = "eliteAnts" -> p.timesPrestiged >= 5
    [] upgradeId \in {"autoEliteAntsCreation", "eliteAntsStoreUpgrade",
                      "royalJelly"} -> upgradePurchased(p, "eliteAnts")
    [] OTHER -> TRUE

\* The shop entries that carry an unlockedWhen.
UnlockedWhenIds ==
  {"autoEliteAntsCreation", "eliteAnts", "eliteAntsStoreUpgrade", "royalJelly"}

\* isUpgradeUnlocked of the prestige page, called for a shop entry each time
\* the page is rendered.
isUpgradeUnlocked(p, upgradeId) ==
  IF upgradeId \notin UnlockedWhenIds THEN TRUE ELSE unlockedWhen(p, upgradeId)

\* baseThreshold * (1 + prestigeCount * 0.2) is computed in binary64, where 0.2
\* is not a binary fraction: with baseAntThreshold = 50 the product comes out
\* one unit in the last place above the whole number for these prestige counts
\* (6: 110.00000000000001, 7: 120.00000000000001, 12: 170.00000000000003), and
\* exactly on it for the other counts up to 12.
ThresholdRoundsUp(baseThreshold, prestigeCount) ==
  baseThreshold = 50 /\ prestigeCount \in {6, 7, 12}

\* The threshold is held as its exact value and the direction of its
\* rounding; the quotient and product after it are exact, which is what
\* binary64 yields whenever the exact product is not a whole number.
calculatePrestigePointsFor(currentResources, baseThreshold, prestigeCount, scaling) ==
  LET scalingFactor == IF prestigeCount < 5 \/ ~scaling
                       THEN R(1)
                       ELSE RAdd(R(1), RMul(R(prestigeCount), Q(1, 5)))
      threshold == RMul(R(baseThreshold), scalingFactor)
      roundsUp == ~(prestigeCount < 5 \/ ~scaling)
                  /\ ThresholdRoundsUp(baseThreshold, prestigeCount)
      prestigePoints ==
        Floor(RMul(RDiv(currentResources, threshold),
                   RAdd(R(1), RMul(R(prestigeCount), Q(1, 20)))))
  IN  IF RLt(currentResources, threshold)
         \/ (roundsUp /\ currentResources = threshold)
      THEN 0
      ELSE IF prestigeCount =< 5 \/ ~scaling
           THEN Floor(RDiv(currentResources, threshold)) + 1
           ELSE IF prestigePoints > 0 THEN prestigePoints ELSE 0

calculatePrestigePoints(p, g) ==
  LET antPoints ==
        calculatePrestigePointsFor(g.ants, p.baseAntThreshold,
                                   p.timesPrestiged, TRUE)
      queenPoints ==
        calculatePrestigePointsFor(R(g.queens), p.baseQueenThreshold,
                                   p.timesPrestiged, FALSE)
  IN  antPoints + queenPoints

\* The object map of applyPrestigeUpgrade: the effect of one upgrade on the
\* two stores w = [prestige |-> ..., game |-> ...]; an id the map does not
\* hold ('Invalid upgrade ID') changes nothing.
upgradeEffect(w, upgradeId) ==
  LET g == w.game
      p == w.prestige
  IN
  CASE upgradeId = "storageUpgrade" ->
         [w EXCEPT !.game = [g EXCEPT !.maxSeeds = RMul(g.maxSeeds, Q(6, 5)),
                                      !.maxLarvae = RMul(g.maxLarvae, Q(6, 5)),
                                      !.maxAnts = RMul(g.maxAnts, R(2)),
                                      !.maxQueens = g.maxQueens + 1]]
    [] upgradeId = "eliteAntsStoreUpgrade" ->
         [w EXCEPT !.game.maxEliteAnts = g.maxEliteAnts + 1]
    [] upgradeId = "productionBoost" ->
         [w EXCEPT !.game =
            [g EXCEPT !.larvaeProductionRate = RMul(g.larvaeProductionRate, Q(6, 5)),
                      !.collectionRatePerAnt = RMul(g.collectionRatePerAnt, Q(6, 5))]]
    [] upgradeId = "queenEfficiency" ->
         [w EXCEPT !.game.larvaeProductionRate = RMul(g.larvaeProductionRate, Q(3, 2))]
    [] upgradeId = "autoLarvae" ->
         [w EXCEPT !.prestige.autoLarvaeCreation = TRUE]
    [] upgradeId = "autoEliteAntsCreation" ->
         [w EXCEPT !.prestige.autoEliteAntsCreation = TRUE]
    [] upgradeId = "betterAnts" ->
         [w EXCEPT !.game.attackPerAnt = RMul(g.attackPerAnt, Q(11, 10))]
    [] upgradeId = "betterAntsDefense" ->
         [w EXCEPT !.game.defensePerAnt = RMul(g.defensePerAnt, Q(11, 10))]
    [] upgradeId = "autoAnts" ->
         [w EXCEPT !.prestige.autoAntCreation = TRUE]
    [] upgradeId = "autoQueens" ->
         [w EXCEPT !.prestige.autoQueenCreation = TRUE]
    [] upgradeId = "autoSeedStorageUpgrade" ->
         [w EXCEPT !.prestige.autoSeedStorageUpgrade = TRUE]
    [] upgradeId = "startWithAnts" ->
         [w EXCEPT !.game.ants = RAdd(g.ants, R(1)),
                   !.prestige.antsFromPrestigeShop = p.antsFromPrestigeShop + 1]
    [] upgradeId = "eliteAnts" ->
         [w EXCEPT !.game.eliteAntsUnlocked = TRUE]
    [] upgradeId = "royalJelly" ->
         [w EXCEPT !.game.royalJellyUnlocked = TRUE]
    [] OTHER -> w

\* applyPrestigeUpgrade without the test of applyOnPrestige.
applyPrestigeUpgradeAlways(w, upgradeId, fromPrestige) == upgradeEffect(w, upgradeId)

applyPrestigeUpgrade(w, upgradeId, fromPrestige) ==
  IF fromPrestige /\ upgradeId \in DOMAIN w.prestige.prestigeShop
     /\ upgradeId \in NotAppliedOnPrestige
  THEN w
  ELSE upgradeEffect(w, upgradeId)

\* purchasedUpgrades.forEach(applyPrestigeUpgrade), from index i on.
RECURSIVE applyFrom(_, _, _, _)
applyFrom(w, ids, i, fromPrestige) ==
  IF i > Len(ids) THEN w
  ELSE applyFrom(applyPrestigeUpgrade(w, ids[i], fromPrestige), ids, i + 1,
                 fromPrestige)

applyPrestigeUpgrades(w, fromPrestige) ==
  applyFrom(w, w.prestige.purchasedUpgrades, 1, fromPrestige)

\* buyUpgrade without the switch on the upgrade id.
costMultiplierDefault(upgradeId) == Q(3, 2)

\* The cost multiplier of buyUpgrade, as a fraction.
costMultiplier(upgradeId) ==
  IF upgradeId = "eliteAntsStoreUpgrade" THEN R(3) ELSE Q(3, 2)

\* buyUpgrade without the test of the balance.
buyUpgradeOnCredit(w, upgradeId) ==
  LET p == w.prestige
  IN  IF upgradeId \in DOMAIN p.prestigeShop
      THEN LET cost == p.prestigeShop[upgradeId]
               paid == [w EXCEPT
                         !.prestige.prestigePoints = p.prestigePoints - cost,
                         !.prestige.prestigeShop[upgradeId] =
                            Floor(RMul(R(cost), costMultiplier(upgradeId))),
                         !.prestige.purchasedUpgrades =
                            Append(p.purchasedUpgrades, upgradeId)]
           IN  [w |-> applyPrestigeUpgrade(paid, upgradeId, FALSE), ret |-> TRUE]
      ELSE [w |-> w, ret |-> FALSE]

\* buyUpgrade: the two stores after the call, and the value returned.
buyUpgrade(w, upgradeId) ==
  LET p == w.prestige
  IN  IF upgradeId \in DOMAIN p.prestigeShop
         /\ p.prestigePoints >= p.prestigeShop[upgradeId]
      THEN LET cost == p.prestigeShop[upgradeId]
               paid == [w EXCEPT
                         !.prestige.prestigePoints = p.prestigePoints - cost,
                         !.prestige.prestigeShop[upgradeId] =
                            Floor(RMul(R(cost), costMultiplier(upgradeId))),
                         !.prestige.purchasedUpgrades =
                            Append(p.purchasedUpgrades, upgradeId)]
           IN  [w |-> applyPrestigeUpgrade(paid, upgradeId, FALSE), ret |-> TRUE]
      ELSE [w |-> w, ret |-> FALSE]

\* An iteration of the loop of buyMaxUpgrade that buys nothing.
buyMaxIterationIdle(w, upgradeId) == w

\* The body of the while loop of buyMaxUpgrade: one iteration.
buyMaxIteration(w, upgradeId) ==
  LET p == w.prestige
      cost == p.prestigeShop[upgradeId]
      paid == [w EXCEPT
                 !.prestige.prestigePoints = p.prestigePoints - cost,
                 !.prestige.purchasedUpgrades =
                    Append(p.purchasedUpgrades, upgradeId)]
      applied == applyPrestigeUpgrade(paid, upgradeId, FALSE)
  IN  [applied EXCEPT !.prestige.prestigeShop[upgradeId] =
                         Floor(RMul(R(cost), Q(3, 2)))]

\* The loop of buyMaxUpgrade with the test "while (this.prestigePoints > 0)".
RECURSIVE buyMaxLoopWhilePositive(_, _)
buyMaxLoopWhilePositive(w, upgradeId) ==
  LET p == w.prestige
      cost == p.prestigeShop[upgradeId]
  IN  IF p.prestigePoints > 0
      THEN LET paid == [w EXCEPT
                         !.prestige.prestigePoints = p.prestigePoints - cost,
                         !.prestige.purchasedUpgrades =
                            Append(p.purchasedUpgrades, upgradeId)]
               applied == applyPrestigeUpgrade(paid, upgradeId, FALSE)
           IN  buyMaxLoopWhilePositive(
                 [applied EXCEPT !.prestige.prestigeShop[upgradeId] =
                                    Floor(RMul(R(cost), Q(3, 2)))],
                 upgradeId)
      ELSE w

\* The while loop of buyMaxUpgrade.
RECURSIVE buyMaxLoop(_, _)
buyMaxLoop(w, upgradeId) ==
  LET p == w.prestige
      cost == p.prestigeShop[upgradeId]
  IN  IF p.prestigePoints >= cost
      THEN LET paid == [w EXCEPT
                         !.prestige.prestigePoints = p.prestigePoints - cost,
                         !.prestige.purchasedUpgrades =
                            Append(p.purchasedUpgrades, upgradeId)]
               applied == applyPrestigeUpgrade(paid, upgradeId, FALSE)
           IN  buyMaxLoop([applied EXCEPT
                             !.prestige.prestigeShop[upgradeId] =
                                Floor(RMul(R(cost), Q(3, 2)))],
                          upgradeId)
      ELSE w

buyMaxUpgrade(w, upgradeId) ==
  IF upgradeId \notin DOMAIN w.prestige.prestigeShop
  THEN [w |-> w, ret |-> FALSE]
  ELSE [w |-> buyMaxLoop(w, upgradeId), ret |-> TRUE]

----------------------------------------------------------------------------
(* Persistence (idb-keyval, key 'idleGameState').                          *)

\* get() of a key that was never set or was deleted.
NoSave == [absent |-> TRUE]

\* The gameState object literal of saveGameState.
saveBlob(g, currentTime) ==
  [ants |-> g.ants, seeds |-> g.seeds, queens |-> g.queens, larvae |-> g.larvae,
   maxSeeds |-> g.maxSeeds, maxLarvae |-> g.maxLarvae,
   seedStorageUpgradeCost |-> g.seedStorageUpgradeCost,
   larvaeStorageUpgradeCost |-> g.larvaeStorageUpgradeCost,
   prestigePoints |-> g.prestigePoints,
   purchasedUpgrades |-> g.purchasedUpgrades,
   lastSavedTime |-> currentTime,
   storagePrestigeCost |-> g.prestigeShop["storageUpgrade"],
   productionPrestigeCost |-> g.prestigeShop["productionBoost"],
   queenPrestigeCost |-> g.prestigeShop["queenEfficiency"],
   autoLarvaePrestigeCost |-> R(25),
   betterAntsPrestigeCost |-> g.prestigeShop["betterAnts"],
   attackPerAnt |-> g.attackPerAnt, healthPerAnt |-> g.healthPerAnt,
   defensePerAnt |-> g.defensePerAnt]

\* A field a saved record does not hold reads as undefined.
Undefined == [undefined |-> TRUE]

Field(saved, f) == IF f \in DOMAIN saved THEN saved[f] ELSE Undefined

\* saved.f ?? default
OrElse(saved, f, default) == IF f \in DOMAIN saved THEN saved[f] ELSE default

\* loadGameState: the assignments from savedState, up to the first await after
\* them.
loadFields(g, saved) ==
  [g EXCEPT
    !.ants = OrElse(saved, "ants", g.ants),
    !.seeds = OrElse(saved, "seeds", g.seeds),
    !.queens = OrElse(saved, "queens", g.queens),
    !.larvae = OrElse(saved, "larvae", g.larvae),
    !.maxSeeds = OrElse(saved, "maxSeeds", g.maxSeeds),
    !.maxLarvae = OrElse(saved, "maxLarvae", g.maxLarvae),
    !.seedStorageUpgradeCost =
       OrElse(saved, "seedStorageUpgradeCost", g.seedStorageUpgradeCost),
    !.larvaeStorageUpgradeCost =
       OrElse(saved, "larvaeStorageUpgradeCost", g.larvaeStorageUpgradeCost),
    !.prestigePoints = OrElse(saved, "prestigePoints", g.prestigePoints),
    !.purchasedUpgrades = OrElse(saved, "purchasedUpgrades", g.purchasedUpgrades),
    !.lastSavedTime = OrElse(saved, "lastSavedTime", g.lastSavedTime),
    !.prestigeShop =
       [storageUpgrade |-> Field(saved, "storagePrestigeCost"),
        productionBoost |-> Field(saved, "productionPrestigeCost"),
        queenEfficiency |-> Field(saved, "queenPrestigeCost"),
        betterAnts |-> Field(saved, "betterAntsPrestigeCost")],
    !.attackPerAnt = OrElse(saved, "attackPerAnt", g.attackPerAnt),
    !.healthPerAnt = OrElse(saved, "healthPerAnt", g.healthPerAnt),
    !.defensePerAnt = OrElse(saved, "defensePerAnt", g.defensePerAnt)]

\* loadGameState: after the awaits, offline progress and the loaded mark.
loadFinish(g, currentTime) ==
  [calculateOfflineProgress(g, currentTime) EXCEPT !.loaded = TRUE]

\* resetPrestigeShopCosts: the cost it assigns to each id it names.
ResetCosts ==
  [storageUpgrade |-> 5, eliteAntsStoreUpgrade |-> 100, productionBoost |-> 10,
   queenEfficiency |-> 15, autoLarvae |-> 10, betterAnts |-> 50,
   betterAntsDefense |-> 50, autoAnts |-> 20, autoQueens |-> 20,
   startWithAnts |-> 15, eliteAnts |-> 500, autoSeedStorageUpgrade |-> 10,
   autoEliteAntsCreation |-> 100, royalJelly |-> 1000]

resetPrestigeShopCosts(p) ==
  [p EXCEPT !.prestigeShop =
     [id \in DOMAIN p.prestigeShop |->
        IF id \in DOMAIN ResetCosts THEN ResetCosts[id] ELSE p.prestigeShop[id]]]

----------------------------------------------------------------------------
(* The achievement store.  Of its 86 achievements the model keeps the      *)
(* first of each family that reads the pools or the prestige count, and    *)
(* the second of the seeds family; checkAchievements, getAchievementState *)
(* and loadAchievementState treat every entry alike.                       *)

\* The achievements kept, in the order of the list.
AchievementList ==
  <<"first_100_seeds", "first_1000_seeds", "first_50_ants", "create_1_queen",
    "first_10_larvae", "prestige_once">>

AchievementIds == {AchievementList[i] : i \in 1..Len(AchievementList)}

AchievementName ==
  [first_100_seeds |-> "Seed Collector", first_1000_seeds |-> "Seed Hoarder",
   first_50_ants |-> "Ant Keeper", create_1_queen |-> "Royalty Raiser",
   first_10_larvae |-> "Larvae Amateur", prestige_once |-> "First Prestige"]

\* isUnlocked of every achievement after construction.
Achievements0 == [id \in AchievementIds |-> FALSE]

\* unlockCondition with 'first_100_seeds' asking for seeds below the next
\* tier's threshold as well.
unlockConditionBand(id, w) ==
  CASE id = "first_100_seeds" ->
         RGe(w.game.seeds, R(100)) /\ RLt(w.game.seeds, R(1000))
    [] id = "first_1000_seeds" -> RGe(w.game.seeds, R(1000))
    [] id = "first_50_ants" -> RGe(w.game.ants, R(50))
    [] id = "create_1_queen" -> w.game.queens >= 1
    [] id = "first_10_larvae" -> RGe(w.game.larvae, R(10))
    [] id = "prestige_once" -> w.prestige.timesPrestiged >= 1

\* unlockCondition of an achievement, on the stores w.
unlockCondition(id, w) ==
  CASE id = "first_100_seeds" -> RGe(w.game.seeds, R(100))
    [] id = "first_1000_seeds" -> RGe(w.game.seeds, R(1000))
    [] id = "first_50_ants" -> RGe(w.game.ants, R(50))
    [] id = "create_1_queen" -> w.game.queens >= 1
    [] id = "first_10_larvae" -> RGe(w.game.larvae, R(10))
    [] id = "prestige_once" -> w.prestige.timesPrestiged >= 1

\* checkAchievements with the test of isUnlocked left out of its condition.
RECURSIVE checkAchievementsAgain(_, _, _)
checkAchievementsAgain(a, w, i) ==
  IF i > Len(AchievementList) THEN a
  ELSE LET id == AchievementList[i]
       IN  IF unlockCondition(id, w)
           THEN checkAchievementsAgain(
                  [isUnlocked |-> [a.isUnlocked EXCEPT ![id] = TRUE],
                   toasts |-> Append(a.toasts, AchievementName[id])], w, i + 1)
           ELSE checkAchievementsAgain(a, w, i + 1)

\* checkAchievements: the forEach from entry i on; a holds the flags and the
\* toasts shown so far.
RECURSIVE checkAchievements(_, _, _)
checkAchievements(a, w, i) ==
  IF i > Len(AchievementList) THEN a
  ELSE LET id == AchievementList[i]
       IN  IF ~a.isUnlocked[id] /\ unlockCondition(id, w)
           THEN checkAchievements(
                  [isUnlocked |-> [a.isUnlocked EXCEPT ![id] = TRUE],
                   toasts |-> Append(a.toasts, AchievementName[id])], w, i + 1)
           ELSE checkAchievements(a, w, i + 1)

\* getAchievementState: the entries {id, isUnlocked} of the unlocked
\* achievements, as a function from id to isUnlocked.
getAchievementState(isUnlocked) ==
  [id \in {a \in AchievementIds : isUnlocked[a]} |-> isUnlocked[id]]

\* loadAchievementState(state): saved is state?.achievements as a function
\* from id to isUnlocked, empty when the record holds no achievements.
loadAchievementState(isUnlocked, saved) ==
  [id \in AchievementIds |->
     IF id \in DOMAIN saved THEN saved[id] ELSE isUnlocked[id]]

\* One tick of the loop with its three stages.  The loop that calls
\* checkAchievements is not in src/: the achievements are taken to be checked
\* when the callback of startGameLoop has run, in the same turn.  w holds the
\* two stores, a the flags and the toasts.
tickStages(w, a) ==
  LET ticked == [w EXCEPT !.game = gameLoopTick(w.game)]
  IN  [w |-> ticked, a |-> checkAchievements(a, ticked, 1)]

----------------------------------------------------------------------------
(* The timer of the game loop: the handles setInterval has returned and    *)
(* not seen cleared, and the number of handles created so far.             *)

Timers0 == [active |-> {}, created |-> 0]

\* startGameLoop without its test of gameLoopInterval.
startGameLoopAlways(w) ==
  [game |-> [w.game EXCEPT !.gameLoopInterval = w.timers.created + 1],
   timers |-> [active |-> w.timers.active \cup {w.timers.created + 1},
               created |-> w.timers.created + 1]]

\* startGameLoop, on w = [game |-> ..., timers |-> ...].
startGameLoop(w) ==
  IF w.game.gameLoopInterval = NoTimer
  THEN [game |-> [w.game EXCEPT !.gameLoopInterval = w.timers.created + 1],
        timers |-> [active |-> w.timers.active \cup {w.timers.created + 1},
                    created |-> w.timers.created + 1]]
  ELSE w

\* stopGameLoop
stopGameLoop(w) ==
  IF w.game.gameLoopInterval # NoTimer
  THEN [game |-> [w.game EXCEPT !.gameLoopInterval = NoTimer],
        timers |-> [w.timers EXCEPT
                      !.active = w.timers.active \ {w.game.gameLoopInterval}]]
  ELSE w

----------------------------------------------------------------------------
(* The settings store.  Assigning to $state patches the store: the keys of *)
(* the assigned object replace the store's, the other keys stay.           *)

SettingsState0 ==
  [showPrestigeWarning |-> TRUE,
   autoThresholds |->
     [autoSeedStorageUpgrade |-> 0, autoLarvaeStorageUpgrade |-> 0,
      autoEliteAntsCreationSeeds |-> 0, autoEliteAntsCreationLarvae |-> 0,
      autoAntCreationLarvae |-> 0, autoAntCreationSeeds |-> 0,
      autoQueenCreationSeeds |-> 0, autoQueenCreationAnts |-> 0,
      autoCreateHousing |-> 0]]

AutoThresholdIds == DOMAIN SettingsState0.autoThresholds

\* getSettingsState()
getSettingsState(s) == [settings |-> s]

\* setDefaults()
setDefaults(s) ==
  [s EXCEPT
    !.showPrestigeWarning = OrElse(s, "showPrestigeWarning", TRUE),
    !.autoThresholds =
       [f \in AutoThresholdIds |-> OrElse(s.autoThresholds, f, 0)]]

\* loadSettingsState(state)
loadSettingsState(s, state) ==
  LET saved == OrElse(state, "settings", <<>>)
      patched == [f \in DOMAIN s \cup DOMAIN saved |->
                    IF f \in DOMAIN saved THEN saved[f] ELSE s[f]]
  IN  setDefaults(patched)

----------------------------------------------------------------------------
(* Inputs.                                                                 *)

\* The amount argument of collectSeedsManually (default 1).
Amounts == {0, 1, 100, 2000}

\* Milliseconds by which Date.now() moves between two operations.
ClockDeltas == {60000, 120000}

\* The upgrade ids the callers pass: the shop's, one the effect map knows but
\* the shop does not hold, and one nothing knows.
UpgradeIds == ShopIds \cup {"autoLarvae", "noSuchUpgrade"}

GameUpgradeIds == GameShopIds \cup {"autoLarvae"}

\* Saves an earlier session left in the durable store.
EarlierGames ==
  {[GameState0 EXCEPT !.ants = R(120), !.seeds = R(600), !.larvae = R(3)],
   [GameState0 EXCEPT !.ants = R(250), !.seeds = R(1000), !.queens = 2,
                      !.larvae = Q(19, 2), !.prestigePoints = R(30)]}

EarlierSaveTime == 0 - 60000

SavedGames == {saveBlob(g, EarlierSaveTime) : g \in EarlierGames}

----------------------------------------------------------------------------
(* The state machine.  An operation the user interface or a timer invokes  *)
(* is one action; an async operation is one action per stretch of code     *)
(* between two awaits, the call in flight being an entry of pending.       *)

World == [prestige |-> prestige, game |-> game]

\* A call in flight: the function, the await it is suspended at, its debug
\* argument, the record it is writing, and (a prestige) the multipliers the
\* stores held when it credited its points.
Task(fn, at, debug, blob) ==
  [fn |-> fn, at |-> at, debug |-> debug, blob |-> blob, before |-> NoSave]

RemoveAt(seq, i) == [j \in 1..(Len(seq) - 1) |-> IF j < i THEN seq[j] ELSE seq[j + 1]]

\* A call of the game store or the prestige store; it leaves the achievement
\* store, the timers, the settings and the saved prestige state as they are.
Called(op, arg, ret) ==
  /\ steps' = steps + 1
  /\ last' = [op |-> op, arg |-> arg, ret |-> ret]
  /\ UNCHANGED <<achievements, timers, settings, savedPrestige>>

Resolved(op, arg) ==
  /\ steps' = steps
  /\ last' = [op |-> op, arg |-> arg, ret |-> "none"]
  /\ UNCHANGED <<achievements, timers, settings, savedPrestige>>

\* A call in flight goes on with the value its await resolved to.
ResolvedWith(op, arg, value) ==
  /\ steps' = steps
  /\ last' = [op |-> op, arg |-> arg, ret |-> value]
  /\ UNCHANGED <<achievements, timers, settings, savedPrestige>>

Init ==
  /\ game = GameState0 @@ StorageExt0
  /\ prestige = PrestigeState0
  /\ idb \in {NoSave} \cup SavedGames
  /\ pending = <<>>
  /\ now = 0
  /\ toasts = <<>>
  /\ last = [op |-> "init", arg |-> "none", ret |-> "none"]
  /\ steps = 0
  /\ achievements = Achievements0
  /\ timers = Timers0
  /\ settings = SettingsState0
  /\ savedPrestige = NoSave

\* A synchronous game-store method that only changes the game store.
GameCall(op, arg, g) ==
  /\ Called(op, arg, "none")
  /\ game' = g
  /\ UNCHANGED <<prestige, idb, pending, now, toasts>>

Tick == GameCall("tick", "none", gameLoopTick(game))

CreateLarvae == GameCall("createLarvae", "none", createLarvae(game))

CreateMaxLarvae == GameCall("createMaxLarvae", "none", createMaxLarvae(game))

CreateAnts == GameCall("createAnts", "none", createAnts(game))

CreateMaxAnts == GameCall("createMaxAnts", "none", createMaxAnts(game))

BuyQueen == GameCall("buyQueen", "none", buyQueen(game))

BuyMaxQueens == GameCall("buyMaxQueens", "none", buyMaxQueens(game))

CollectSeedsManually ==
  \E amount \in Amounts :
    GameCall("collectSeedsManually", amount, collectSeedsManually(game, amount))

UpgradeSeedStorage == GameCall("upgradeSeedStorage", "none", upgradeSeedStorage(game))

UpgradeLarvaeStorage ==
  GameCall("upgradeLarvaeStorage", "none", upgradeLarvaeStorage(game))

CalculateOfflineProgress ==
  GameCall("calculateOfflineProgress", "none", calculateOfflineProgress(game, now))

GameBuyUpgrade ==
  \E upgradeId \in GameUpgradeIds :
    GameCall("gameStore.buyUpgrade", upgradeId, gameBuyUpgrade(game, upgradeId))

\* Wall-clock time passes.
Elapse ==
  \E d \in ClockDeltas :
    /\ Called("elapse", d, "none")
    /\ now' = now + d
    /\ UNCHANGED <<game, prestige, idb, pending, toasts>>

\* The multiplier state.  A prestige call in flight keeps the one the stores
\* held when it credited its points (before); nothing in the code reads it,
\* the properties of a completed prestige are stated with it.
Multipliers(w) ==
  [larvaeProductionRate |-> w.game.larvaeProductionRate,
   collectionRatePerAnt |-> w.game.collectionRatePerAnt,
   autoLarvaeCreation |-> w.prestige.autoLarvaeCreation
                           \/ w.game.autoLarvaeCreation,
   autoAntCreation |-> w.prestige.autoAntCreation,
   autoEliteAntsCreation |-> w.prestige.autoEliteAntsCreation,
   autoQueenCreation |-> w.prestige.autoQueenCreation,
   autoSeedStorageUpgrade |-> w.prestige.autoSeedStorageUpgrade]

\* What a prestige keeps of the state it started from: the multiplier state
\* and the purchases made so far.
Snapshot(w) ==
  [multipliers |-> Multipliers(w),
   purchased |-> <<w.game.purchasedUpgrades, w.prestige.purchasedUpgrades>>]

\* gameStore.prestige(): synchronous up to the first await of the
\* resetGameState() it starts and does not await.
GamePrestige ==
  LET earnedPrestigePoints == gameCalculatePrestigePoints(game)
  IN  /\ Len(pending) < MaxInFlight
      /\ Called("gameStore.prestige", "none", "none")
      /\ IF earnedPrestigePoints = 0
         THEN UNCHANGED <<game, pending>>
         ELSE /\ game' = [game EXCEPT !.prestigePoints =
                             RAdd(game.prestigePoints, R(earnedPrestigePoints))]
              /\ pending' =
                   Append(pending,
                          [Task("resetGameState", "del", FALSE, NoSave)
                             EXCEPT !.before = Snapshot(World)])
      /\ UNCHANGED <<prestige, idb, now, toasts>>

\* prestigeStore.prestige(): the call, up to await gameStore.getUserId().
Prestige ==
  /\ Len(pending) < MaxInFlight
  /\ Called("prestige", "none", "none")
  /\ pending' = Append(pending, Task("prestige", "getUserId", FALSE, NoSave))
  /\ UNCHANGED <<game, prestige, idb, now, toasts>>

\* prestige(), from the user id to the first await of the reset it starts.
\* The user id comes from the session outside the two stores: present or not.
NoUserId == "null"

\* prestige() without the test of the user id.
prestigeReturnsOnZero(userId, earnedPrestigePoints) ==
  earnedPrestigePoints = 0

\* The two early returns of prestige().
prestigeReturnsEarly(userId, earnedPrestigePoints) ==
  userId = NoUserId \/ earnedPrestigePoints = 0

\* prestige() with the toast shown from the fifth prestige on.
eliteAntsMilestoneFrom(timesPrestiged) == timesPrestiged >= 5

\* prestige(): the test before the toast 'You have unlocked the Elite Ants
\* upgrade in the prestige shop!'.
eliteAntsMilestone(timesPrestiged) == timesPrestiged = 5

PrestigeCredit ==
  \E i \in 1..Len(pending), userId \in {"uid", NoUserId} :
    LET earnedPrestigePoints == calculatePrestigePoints(prestige, game)
        timesPrestiged == prestige.timesPrestiged + 1
    IN  /\ pending[i].fn = "prestige" /\ pending[i].at = "getUserId"
        /\ IF prestigeReturnsEarly(userId, earnedPrestigePoints)
           THEN /\ pending' = RemoveAt(pending, i)
                /\ ResolvedWith("prestige", "returned", userId)
                /\ UNCHANGED <<prestige, toasts>>
           ELSE /\ prestige' =
                     [prestige EXCEPT
                        !.prestigePoints = prestige.prestigePoints
                                           + earnedPrestigePoints,
                        !.timesPrestiged = timesPrestiged]
                /\ toasts' = IF eliteAntsMilestone(timesPrestiged)
                             THEN Append(toasts, "eliteAntsUnlocked")
                             ELSE toasts
                /\ pending' =
                     [pending EXCEPT ![i].at = "del",
                                     ![i].before = Snapshot(World)]
                /\ ResolvedWith("prestige", "credited", userId)
        /\ UNCHANGED <<game, idb, now>>

\* prestige(), when the reset it awaits returns: gameStore.resetOtherStores(false)
\* starts.  That routine is not in src/; it is taken to re-apply the prestige
\* store's purchased upgrades with fromPrestige = true.
resetOtherStores(w) == applyPrestigeUpgrades(w, TRUE)

\* resetGameState, after await del('idleGameState'): the delete went through
\* and the fields are reset, or it failed and the catch block ends the reset.
\* A prestige that awaits the reset goes on either way.
ResetAfterDel ==
  \E i \in 1..Len(pending), ok \in BOOLEAN :
    /\ pending[i].at = "del"
    /\ IF ok
       THEN /\ idb' = NoSave
            /\ game' = resetFields(game, pending[i].debug, now)
            /\ prestige' = prestige
            /\ pending' = [pending EXCEPT ![i].at = "resetInventoryState"]
            /\ Resolved(pending[i].fn, "fieldsReset")
       ELSE /\ idb' = idb
            /\ IF pending[i].fn = "prestige"
               THEN /\ game' = resetOtherStores(World).game
                    /\ prestige' = resetOtherStores(World).prestige
                    /\ pending' = [pending EXCEPT ![i].at = "resetOtherStores"]
                    /\ Resolved(pending[i].fn, "resetFailed")
               ELSE /\ UNCHANGED <<game, prestige>>
                    /\ pending' = RemoveAt(pending, i)
                    /\ Resolved(pending[i].fn, "failed")
    /\ UNCHANGED <<now, toasts>>

\* resetGameState, after await inventoryStore.resetInventoryState().
ResetReplay ==
  \E i \in 1..Len(pending) :
    /\ pending[i].at = "resetInventoryState"
    /\ game' = gameApplyPrestigeUpgrades(game)
    /\ pending' = [pending EXCEPT ![i].at = "resetAdventureState"]
    /\ Resolved(pending[i].fn, "replayed")
    /\ UNCHANGED <<prestige, idb, now, toasts>>

\* resetGameState, after await adventureStore.resetAdventureState(): the reset
\* has completed, and a prestige that awaited it goes on.
ResetDone ==
  \E i \in 1..Len(pending) :
    /\ pending[i].at = "resetAdventureState"
    /\ IF pending[i].fn = "prestige"
       THEN /\ game' = resetOtherStores(World).game
            /\ prestige' = resetOtherStores(World).prestige
            /\ pending' = [pending EXCEPT ![i].at = "resetOtherStores"]
            /\ Resolved(pending[i].fn, "resetDone")
       ELSE /\ UNCHANGED <<game, prestige>>
            /\ pending' = RemoveAt(pending, i)
            /\ Resolved(pending[i].fn, "completed")
    /\ UNCHANGED <<idb, now, toasts>>

\* prestige(), after await gameStore.resetOtherStores(false): saveGameState()
\* builds its record and starts the write.
PrestigeSave ==
  \E i \in 1..Len(pending) :
    /\ pending[i].fn = "prestige" /\ pending[i].at = "resetOtherStores"
    /\ pending' = [pending EXCEPT ![i].at = "set",
                                  ![i].blob = saveBlob(game, now)]
    /\ Resolved("prestige", "saving")
    /\ UNCHANGED <<game, prestige, idb, now, toasts>>

\* saveGameState(): the record is built from the store and the write started.
\* The task keeps, for the properties only, the store and the clock of the call.
SaveGameState ==
  /\ Len(pending) < MaxInFlight
  /\ Called("saveGameState", "none", "none")
  /\ pending' = Append(pending,
                       [Task("saveGameState", "set", FALSE, saveBlob(game, now))
                          EXCEPT !.before = [game |-> game, now |-> now]])
  /\ UNCHANGED <<game, prestige, idb, now, toasts>>

\* A write that serialises the store when the write is carried out.
setArgumentAtWrite(gameState, g, currentTime) == saveBlob(g, currentTime)

\* The argument of set('idleGameState', ...): JSON.parse(JSON.stringify(gameState)),
\* evaluated before the await, a copy of the literal built at the call.
setArgument(gameState, g, currentTime) == gameState

\* saveGameState, after await set('idleGameState', ...): written, or failed
\* and caught.  The call, and a prestige that awaited it, have completed.
SaveDone ==
  \E i \in 1..Len(pending), ok \in BOOLEAN :
    /\ pending[i].at = "set"
    /\ idb' = IF ok THEN setArgument(pending[i].blob, game, now) ELSE idb
    /\ pending' = RemoveAt(pending, i)
    /\ Resolved(pending[i].fn, "completed")
    /\ UNCHANGED <<game, prestige, now, toasts>>

\* loadGameState(): the call, up to await get('idleGameState').
LoadGameState ==
  /\ Len(pending) < MaxInFlight
  /\ Called("loadGameState", "none", "none")
  /\ pending' = Append(pending, Task("loadGameState", "get", FALSE, NoSave))
  /\ UNCHANGED <<game, prestige, idb, now, toasts>>

\* loadGameState, after await get: the read failed (caught, nothing loaded),
\* found no save (offline progress at once), or found one (its fields are
\* taken, then the other stores' loads are awaited).
LoadAfterGet ==
  \E i \in 1..Len(pending), ok \in BOOLEAN :
    /\ pending[i].fn = "loadGameState" /\ pending[i].at = "get"
    /\ IF ~ok
       THEN /\ game' = game
            /\ pending' = RemoveAt(pending, i)
            /\ Resolved("loadGameState", "failed")
       ELSE IF idb = NoSave
            THEN /\ game' = loadFinish(game, now)
                 /\ pending' = RemoveAt(pending, i)
                 /\ Resolved("loadGameState", "completed")
            ELSE /\ game' = loadFields(game, idb)
                 /\ pending' = [pending EXCEPT ![i].at = "loadOtherStores"]
                 /\ Resolved("loadGameState", "fieldsLoaded")
    /\ UNCHANGED <<prestige, idb, now, toasts>>

\* loadGameState, after the other stores' loads.
LoadDone ==
  \E i \in 1..Len(pending) :
    /\ pending[i].at = "loadOtherStores"
    /\ game' = loadFinish(game, now)
    /\ pending' = RemoveAt(pending, i)
    /\ Resolved("loadGameState", "completed")
    /\ UNCHANGED <<prestige, idb, now, toasts>>

----------------------------------------------------------------------------
(* The prestige store: its synchronous operations.                         *)

\* A synchronous prestige-store method: it may change both stores.
PrestigeCall(op, arg, result) ==
  /\ Called(op, arg, result.ret)
  /\ game' = result.w.game
  /\ prestige' = result.w.prestige
  /\ UNCHANGED <<idb, pending, now, toasts>>

BuyUpgrade ==
  \E upgradeId \in UpgradeIds :
    PrestigeCall("buyUpgrade", upgradeId, buyUpgrade(World, upgradeId))

BuyMaxUpgrade ==
  \E upgradeId \in UpgradeIds :
    PrestigeCall("buyMaxUpgrade", upgradeId, buyMaxUpgrade(World, upgradeId))

\* The purchases of the prestige cycle: an upgrade whose effect is a rate, one
\* whose effect is a cap, and one that is not applied on prestige.
CycleUpgradeIds == {"productionBoost", "storageUpgrade", "betterAnts"}

BuyCycleUpgrade ==
  \E upgradeId \in CycleUpgradeIds :
    PrestigeCall("buyUpgrade", upgradeId, buyUpgrade(World, upgradeId))

\* getPrestigeState()
getPrestigeState(p) ==
  [prestigePoints |-> p.prestigePoints,
   timesPrestiged |-> p.timesPrestiged,
   purchasedUpgrades |-> p.purchasedUpgrades,
   storagePrestigeCost |-> p.prestigeShop["storageUpgrade"],
   eliteAntsStoreUpgradeCost |-> p.prestigeShop["eliteAntsStoreUpgrade"],
   productionPrestigeCost |-> p.prestigeShop["productionBoost"],
   queenPrestigeCost |-> p.prestigeShop["queenEfficiency"],
   betterAntsPrestigeCost |-> p.prestigeShop["betterAnts"],
   betterAntsDefensePrestigeCost |-> p.prestigeShop["betterAntsDefense"],
   startWithAntsPrestigeCost |-> p.prestigeShop["startWithAnts"],
   autoLarvaeCreation |-> p.autoLarvaeCreation,
   autoAntCreation |-> p.autoAntCreation,
   autoEliteAntsCreation |-> p.autoEliteAntsCreation,
   autoQueenCreation |-> p.autoQueenCreation,
   autoSeedStorageUpgrade |-> p.autoSeedStorageUpgrade,
   eliteAntsUnlocked |-> upgradePurchased(p, "eliteAnts"),
   royalJellyUnlocked |-> upgradePurchased(p, "royalJelly")]

\* loadPrestigeState(savedState)
loadPrestigeState(p, savedState) ==
  [p EXCEPT
    !.prestigePoints = OrElse(savedState, "prestigePoints", p.prestigePoints),
    !.timesPrestiged = OrElse(savedState, "timesPrestiged", p.timesPrestiged),
    !.purchasedUpgrades =
       OrElse(savedState, "purchasedUpgrades", p.purchasedUpgrades),
    !.autoLarvaeCreation =
       OrElse(savedState, "autoLarvaeCreation", p.autoLarvaeCreation),
    !.autoAntCreation = OrElse(savedState, "autoAntCreation", p.autoAntCreation),
    !.autoQueenCreation =
       OrElse(savedState, "autoQueenCreation", p.autoQueenCreation),
    !.autoSeedStorageUpgrade =
       OrElse(savedState, "autoSeedStorageUpgrade", p.autoSeedStorageUpgrade),
    !.autoEliteAntsCreation =
       OrElse(savedState, "autoEliteAntsCreation", p.autoEliteAntsCreation),
    !.prestigeShop =
       [id \in DOMAIN p.prestigeShop |->
          CASE id = "storageUpgrade" -> OrElse(savedState, "storagePrestigeCost", 5)
            [] id = "eliteAntsStoreUpgrade" ->
                 OrElse(savedState, "eliteAntsStoreUpgradeCost", 100)
            [] id = "productionBoost" ->
                 OrElse(savedState, "productionPrestigeCost", 10)
            [] id = "queenEfficiency" -> OrElse(savedState, "queenPrestigeCost", 15)
            [] id = "betterAnts" -> OrElse(savedState, "betterAntsPrestigeCost", 50)
            [] id = "betterAntsDefense" ->
                 OrElse(savedState, "betterAntsDefensePrestigeCost", 50)
            [] id = "startWithAnts" ->
                 OrElse(savedState, "startWithAntsPrestigeCost", 15)
            [] OTHER -> p.prestigeShop[id]]]

\* Prestige states an earlier session saved with getPrestigeState().
EarlierPrestige ==
  {[PrestigeState0 EXCEPT !.prestigePoints = 50, !.timesPrestiged = 3],
   [PrestigeState0 EXCEPT !.prestigePoints = 120, !.timesPrestiged = 5]}

SavedPrestige == {getPrestigeState(p) : p \in EarlierPrestige}

\* The session's loader hands a saved prestige state to loadPrestigeState: at
\* the start of a session, when the store is as constructed.
LoadPrestigeState ==
  \E savedState \in SavedPrestige :
    /\ prestige = PrestigeState0
    /\ Called("loadPrestigeState", savedState.prestigePoints, "none")
    /\ prestige' = loadPrestigeState(prestige, savedState)
    /\ UNCHANGED <<game, idb, pending, now, toasts>>

----------------------------------------------------------------------------
(* Specifications.                                                         *)

\* The game store on its own.
LedgerCall ==
  \/ Tick \/ CreateLarvae \/ CreateMaxLarvae \/ CreateAnts \/ CreateMaxAnts
  \/ BuyQueen \/ BuyMaxQueens \/ CollectSeedsManually
  \/ UpgradeSeedStorage \/ UpgradeLarvaeStorage
  \/ Elapse \/ CalculateOfflineProgress
  \/ LoadGameState \/ GameBuyUpgrade \/ GamePrestige

LedgerNext ==
  \/ steps < MaxLedgerCalls /\ LedgerCall
  \/ LoadAfterGet \/ LoadDone \/ ResetAfterDel \/ ResetReplay \/ ResetDone

SpecLedger == Init /\ [][LedgerNext]_vars

\* The prestige shop.
ShopCall == LoadPrestigeState \/ BuyUpgrade \/ BuyMaxUpgrade

ShopNext == steps < MaxShopCalls /\ ShopCall

SpecShop == Init /\ [][ShopNext]_vars

\* The prestige cycle.
PrestigeCycleCall ==
  LoadGameState \/ LoadPrestigeState \/ BuyCycleUpgrade \/ Prestige

PrestigeNext ==
  \/ steps < MaxPrestigeCalls /\ PrestigeCycleCall
  \/ LoadAfterGet \/ LoadDone
  \/ PrestigeCredit \/ ResetAfterDel \/ ResetReplay \/ ResetDone
  \/ PrestigeSave \/ SaveDone

SpecPrestige == Init /\ [][PrestigeNext]_vars

----------------------------------------------------------------------------
(* Claims.                                                                 *)

\* C1: in every reachable state of the game store the capped pools satisfy
\* 0 <= seeds <= maxSeeds and 0 <= larvae <= maxLarvae.
C1_PoolsWithinCaps ==
  /\ RLe(R(0), game.seeds) /\ RLe(game.seeds, game.maxSeeds)
  /\ RLe(R(0), game.larvae) /\ RLe(game.larvae, game.maxLarvae)

\* C2: createLarvae, createAnts and buyQueen are all-or-nothing: when a
\* required resource is below its cost (or, for createLarvae, the larvae cap is
\* reached) the call changes nothing; otherwise it deducts every cost, produces
\* exactly one unit and changes nothing else.
C2_AllOrNothing ==
  [][/\ last'.op = "createLarvae" =>
          /\ <<prestige, idb, pending, now, toasts>>'
               = <<prestige, idb, pending, now, toasts>>
          /\ IF RLt(game.seeds, game.seedCostPerLarva)
                \/ RGe(game.larvae, game.maxLarvae)
             THEN game' = game
             ELSE game' = [game EXCEPT
                            !.larvae = RAdd(game.larvae, R(1)),
                            !.seeds = RSub(game.seeds, game.seedCostPerLarva)]
     /\ last'.op = "createAnts" =>
          /\ <<prestige, idb, pending, now, toasts>>'
               = <<prestige, idb, pending, now, toasts>>
          /\ IF RLt(game.larvae, game.larvaCostPerAnt)
                \/ RLt(game.seeds, game.seedCostPerAnt)
             THEN game' = game
             ELSE game' = [game EXCEPT
                            !.ants = RAdd(game.ants, R(1)),
                            !.larvae = RSub(game.larvae, game.larvaCostPerAnt),
                            !.seeds = RSub(game.seeds, game.seedCostPerAnt)]
     /\ last'.op = "buyQueen" =>
          /\ <<prestige, idb, pending, now, toasts>>'
               = <<prestige, idb, pending, now, toasts>>
          /\ IF RLt(game.ants, game.antCostPerQueen)
                \/ RLt(game.seeds, game.seedCostPerQueen)
             THEN game' = game
             ELSE game' = [game EXCEPT
                            !.queens = game.queens + 1,
                            !.ants = RSub(game.ants, game.antCostPerQueen),
                            !.seeds = RSub(game.seeds, game.seedCostPerQueen)]
    ]_vars

\* C2, Scenario A: createLarvae was called with seeds = 10 against a cost of
\* 100 and left larvae at 0 and seeds at 10.
C2_Witness ==
  /\ last.op = "createLarvae"
  /\ game.seedCostPerLarva = R(100)
  /\ game.seeds = R(10) /\ game.larvae = R(0)

\* The stores other than the last call's record are as they were.
StoresUnchanged == game' = game /\ prestige' = prestige

\* C3: buyUpgrade(id) returns false and changes no state when id is not in the
\* prestige shop, when the upgrade is one-time and id is already in
\* purchasedUpgrades, or when prestigePoints is below the upgrade's cost.
C3_BuyUpgradeRefuses ==
  [][last'.op = "buyUpgrade"
       /\ (\/ last'.arg \notin ShopIds
           \/ last'.arg \in OneTimePurchase /\ upgradePurchased(prestige, last'.arg)
           \/ prestige.prestigePoints < prestige.prestigeShop[last'.arg])
     => last'.ret = FALSE /\ StoresUnchanged]_vars

\* floor(cost * 1.5) and cost * 3 on whole costs.
GrownCost(upgradeId, cost) ==
  IF upgradeId = "eliteAntsStoreUpgrade" THEN 3 * cost ELSE (3 * cost) \div 2

\* C4: a buyUpgrade(id) that returns true deducts exactly the pre-call cost,
\* appends id exactly once, sets the cost to floor(old cost * g) with g = 3 for
\* 'eliteAntsStoreUpgrade' and 1.5 otherwise, applies the upgrade's effect
\* exactly once, and changes no other upgrade's cost.
C4_BuyUpgradeSucceeds ==
  [][last'.op = "buyUpgrade" /\ last'.ret = TRUE
     => LET id == last'.arg
            cost == prestige.prestigeShop[id]
            once == upgradeEffect(World, id)
        IN  /\ id \in ShopIds
            /\ prestige'.prestigePoints = prestige.prestigePoints - cost
            /\ prestige'.purchasedUpgrades = Append(prestige.purchasedUpgrades, id)
            /\ prestige'.prestigeShop[id] = GrownCost(id, cost)
            /\ \A other \in ShopIds \ {id} :
                 prestige'.prestigeShop[other] = prestige.prestigeShop[other]
            /\ game' = once.game
            /\ prestige' = [once.prestige EXCEPT
                              !.prestigePoints = prestige'.prestigePoints,
                              !.purchasedUpgrades = prestige'.purchasedUpgrades,
                              !.prestigeShop = prestige'.prestigeShop]]_vars

\* C4: 'eliteAntsStoreUpgrade' was bought at 100 and now costs 300, with its
\* effect (one more elite ant of capacity) applied once.
C4_Witness ==
  /\ last.op = "buyUpgrade" /\ last.arg = "eliteAntsStoreUpgrade"
  /\ last.ret = TRUE
  /\ prestige.prestigeShop["eliteAntsStoreUpgrade"] = 300
  /\ prestige.prestigePoints = 20
  /\ game.maxEliteAnts = 1

\* buyUpgrade(id), called again and again until it returns false.
RECURSIVE RepeatBuyUpgrade(_, _)
RepeatBuyUpgrade(w, upgradeId) ==
  LET bought == buyUpgrade(w, upgradeId)
  IN  IF bought.ret THEN RepeatBuyUpgrade(bought.w, upgradeId) ELSE w

\* C5: buyMaxUpgrade(id) ends in the state that calling buyUpgrade(id) until
\* it first returns false ends in, for every id of the shop; it returns false
\* only for an unknown id, and true with no purchase when the upgrade is
\* unaffordable.
C5_BuyMaxIsRepeatedBuy ==
  [][last'.op = "buyMaxUpgrade"
     => /\ last'.ret = (last'.arg \in ShopIds)
        /\ last'.arg \in ShopIds =>
             /\ game' = RepeatBuyUpgrade(World, last'.arg).game
             /\ prestige' = RepeatBuyUpgrade(World, last'.arg).prestige
        /\ last'.arg \in ShopIds
             /\ prestige.prestigePoints < prestige.prestigeShop[last'.arg]
           => StoresUnchanged]_vars

\* The cost after n purchases in a row, and what the n purchases cost together.
RECURSIVE CompoundedCost(_, _)
CompoundedCost(cost, n) ==
  IF n = 0 THEN cost ELSE CompoundedCost((3 * cost) \div 2, n - 1)

RECURSIVE CompoundedSum(_, _)
CompoundedSum(cost, n) ==
  IF n = 0 THEN 0 ELSE cost + CompoundedSum((3 * cost) \div 2, n - 1)

\* C6: buyMaxUpgrade never overspends: the balance ends between 0 and its
\* pre-call value, what was deducted is the sum of the successive compounded
\* costs, as many ids were appended as costs were deducted, the cost did not
\* fall, and the balance ends strictly below the new cost.
C6_BuyMaxNeverOverspends ==
  [][last'.op = "buyMaxUpgrade" /\ last'.arg \in ShopIds
     => LET id == last'.arg
            cost == prestige.prestigeShop[id]
            n == Len(prestige'.purchasedUpgrades) - Len(prestige.purchasedUpgrades)
        IN  /\ 0 =< prestige'.prestigePoints
            /\ prestige'.prestigePoints =< prestige.prestigePoints
            /\ n >= 0
            /\ prestige.prestigePoints - prestige'.prestigePoints
                 = CompoundedSum(cost, n)
            /\ prestige'.purchasedUpgrades
                 = prestige.purchasedUpgrades \o [k \in 1..n |-> id]
            /\ prestige'.prestigeShop[id] = CompoundedCost(cost, n)
            /\ prestige'.prestigeShop[id] >= cost
            /\ prestige'.prestigePoints < prestige'.prestigeShop[id]]_vars

\* C6, Scenario C: buyMaxUpgrade at cost 20 with a balance of 50 bought twice
\* (20, then 30), left the balance at 0 and the cost at 45.
C6_Witness ==
  /\ last.op = "buyMaxUpgrade" /\ last.arg = "autoAnts"
  /\ last.ret = TRUE
  /\ prestige.purchasedUpgrades = <<"autoAnts", "autoAnts">>
  /\ prestige.prestigePoints = 0
  /\ prestige.prestigeShop["autoAnts"] = 45

\* C7: every id whose shop entry has oneTimePurchase = true occurs at most
\* once in purchasedUpgrades, in every reachable state of the prestige store.
C7_OneTimeAtMostOnce ==
  \A id \in OneTimePurchase : amountOfUpgrade(prestige, id) =< 1

\* C8: prestige() leaves all state unchanged if and only if
\* calculatePrestigePoints() returns 0; with points > 0 the call always takes
\* effect.  The points are read where prestige() computes them.
C8_NoOpIffZeroPoints ==
  [][last'.op = "prestige" /\ last'.arg \in {"returned", "credited"}
     => ((StoresUnchanged /\ idb' = idb /\ toasts' = toasts)
           <=> calculatePrestigePoints(prestige, game) = 0)]_vars

\* C8, as the code has it: prestige() leaves all state unchanged if and only
\* if getUserId() yields no user id or calculatePrestigePoints(), computed once
\* the user id has arrived, returns 0.
C8_NoOpIffZeroPointsOrNoUser ==
  [][last'.op = "prestige" /\ last'.arg \in {"returned", "credited"}
     => ((StoresUnchanged /\ idb' = idb /\ toasts' = toasts)
           <=> (\/ last'.ret = NoUserId
                \/ calculatePrestigePoints(prestige, game) = 0))]_vars

\* C8: a prestige() that would have earned points returned without effect,
\* because no user id was found.
C8_Witness ==
  /\ last.op = "prestige" /\ last.arg = "returned" /\ last.ret = NoUserId
  /\ calculatePrestigePoints(prestige, game) > 0
  /\ prestige.timesPrestiged = 0 /\ prestige.prestigePoints = 0

\* C9: when a prestige has reset the ledger and is about to re-apply the
\* upgrades, the ledger holds its initial constants: larvae 0, ants 0, seeds
\* 10, queens 1, the caps at their initial values, the storage-upgrade costs
\* 500 and 100, and the production rates at their initial values.
C9_LedgerResetBeforeReplay ==
  last.op = "resetGameState" /\ last.arg = "fieldsReset"
  => /\ game.larvae = R(0) /\ game.ants = R(0)
     /\ game.seeds = R(10) /\ game.queens = 1
     /\ game.maxSeeds = GameState0.maxSeeds
     /\ game.maxLarvae = GameState0.maxLarvae
     /\ game.seedStorageUpgradeCost = 500
     /\ game.larvaeStorageUpgradeCost = 100
     /\ game.larvaeProductionRate = GameState0.larvaeProductionRate
     /\ game.collectionRatePerAnt = GameState0.collectionRatePerAnt

\* C10: when a prestige has re-applied the purchased upgrades, and nothing was
\* purchased since it began, the multiplier state (larvaeProductionRate,
\* collectionRatePerAnt, the auto-feature flags) equals its value just before
\* the prestige.
C10_ReplayRestoresMultipliers ==
  \A i \in 1..Len(pending) :
    /\ pending[i].fn = "resetGameState"
    /\ pending[i].at = "resetAdventureState"
    /\ pending[i].before.purchased
         = <<game.purchasedUpgrades, prestige.purchasedUpgrades>>
    => Multipliers(World) = pending[i].before.multipliers

\* A prestige has credited its points and not yet reset the pools: its reset
\* is suspended at await del('idleGameState').
CreditedNotReset ==
  \E i \in 1..Len(pending) :
    pending[i].fn \in {"resetGameState", "prestige"} /\ pending[i].at = "del"

\* C11: prestige is a single atomic operation: no other operation (a tick, a
\* purchase, a save, a second prestige) runs on a state in which the prestige
\* points have been credited and the pools have not yet been reset.
C11_PrestigeIsAtomic ==
  [][steps' # steps => ~CreditedNotReset]_vars

----------------------------------------------------------------------------
(* The prestige-point formula on its own: the holdings and the prestige    *)
(* count are drawn at the start, the two functions are applied to them.    *)

MaxPointsCalls == 1
MaxPrestigeCount == 7

AntCounts == {0, 1, 49, 50, 60, 99, 100, 109, 110, 120, 130, 250, 260, 300}
QueenCounts == {1, 2, 5}
BaseThresholds == {PrestigeState0.baseAntThreshold, PrestigeState0.baseQueenThreshold}

InitPoints ==
  /\ game \in {[(GameState0 @@ StorageExt0) EXCEPT !.ants = R(a), !.queens = q] :
                 a \in AntCounts, q \in QueenCounts}
  /\ prestige \in {[PrestigeState0 EXCEPT !.timesPrestiged = n] :
                     n \in 0..MaxPrestigeCount}
  /\ idb = NoSave
  /\ pending = <<>>
  /\ now = 0
  /\ toasts = <<>>
  /\ last = [op |-> "init", arg |-> "none", ret |-> "none"]
  /\ steps = 0
  /\ achievements = Achievements0
  /\ timers = Timers0
  /\ settings = SettingsState0
  /\ savedPrestige = NoSave

CalculatePrestigePoints ==
  /\ Called("calculatePrestigePoints", "none",
            calculatePrestigePoints(prestige, game))
  /\ UNCHANGED <<game, prestige, idb, pending, now, toasts>>

CalculatePrestigePointsFor ==
  \E baseThreshold \in BaseThresholds, scaling \in BOOLEAN :
    /\ Called("calculatePrestigePointsFor",
              <<game.ants[1], baseThreshold, prestige.timesPrestiged, scaling>>,
              calculatePrestigePointsFor(game.ants, baseThreshold,
                                         prestige.timesPrestiged, scaling))
    /\ UNCHANGED <<game, prestige, idb, pending, now, toasts>>

PointsNext ==
  steps < MaxPointsCalls /\ (CalculatePrestigePoints \/ CalculatePrestigePointsFor)

SpecPoints == InitPoints /\ [][PointsNext]_vars

\* The formula of the claim on whole numbers: threshold = base * (5 + n) / 5,
\* and 1 + 0.05 * n = (20 + n) / 20.
ReferencePointsFor(r, base, n, scaling) ==
  IF n < 5 \/ ~scaling
  THEN IF r < base THEN 0 ELSE (r \div base) + 1
  ELSE IF 5 * r < base * (5 + n) THEN 0
       ELSE IF n =< 5 THEN ((5 * r) \div (base * (5 + n))) + 1
            ELSE IMax((r * (20 + n)) \div (4 * base * (5 + n)), 0)

\* C12: calculatePrestigePointsFor(r, base, n, scaling) equals the reference
\* formula (scalingFactor 1 if n < 5 or scaling is off, else 1 + 0.2 n;
\* threshold = base * scalingFactor; 0 below the threshold; floor(r/threshold)
\* + 1 if n <= 5 or scaling is off; else max(floor(r/threshold * (1 + 0.05 n)),
\* 0)), and calculatePrestigePoints() is the ants contribution (base 50,
\* scaling on) plus the queens contribution (base 2, scaling off).
C12_PointsFormula ==
  /\ last.op = "calculatePrestigePointsFor"
     => last.ret = ReferencePointsFor(last.arg[1], last.arg[2], last.arg[3],
                                      last.arg[4])
  /\ last.op = "calculatePrestigePoints"
     => last.ret = ReferencePointsFor(game.ants[1], 50, prestige.timesPrestiged, TRUE)
                   + ReferencePointsFor(game.queens, 2, prestige.timesPrestiged, FALSE)

----------------------------------------------------------------------------
(* Offline progress on its own: the pools, the producers and the time of   *)
(* the last save are drawn at the start, with the clock at 0.               *)

MaxOfflineCalls == 2

\* lastSavedTime: two minutes ago, now, a week of minutes ago, and one minute
\* ahead of the clock (a save written under a clock that ran ahead).
OfflineSaveTimes == {0 - 120000, 0, 0 - 600000000, 60000}

\* Larvae pools: empty, fractional from ticks, and the 10.5 that createLarvae
\* makes of 9.5.
OfflineLarvae == {R(0), Q(19, 2), Q(21, 2)}

InitOffline ==
  /\ game \in {[(GameState0 @@ StorageExt0) EXCEPT
                  !.larvae = l, !.seeds = R(sd), !.ants = R(a), !.queens = q,
                  !.lastSavedTime = t] :
                 l \in OfflineLarvae, sd \in {10, 1000}, a \in {0, 120},
                 q \in {1, 2}, t \in OfflineSaveTimes}
  /\ prestige = PrestigeState0
  /\ idb = NoSave
  /\ pending = <<>>
  /\ now = 0
  /\ toasts = <<>>
  /\ last = [op |-> "init", arg |-> "none", ret |-> "none"]
  /\ steps = 0
  /\ achievements = Achievements0
  /\ timers = Timers0
  /\ settings = SettingsState0
  /\ savedPrestige = NoSave

OfflineNext == steps < MaxOfflineCalls /\ CalculateOfflineProgress

SpecOffline == InitOffline /\ [][OfflineNext]_vars

\* C13: calculateOfflineProgress grants each pool an amount g with
\* 0 <= g <= cap - amount, for every elapsed duration (zero, very large, and a
\* lastSavedTime later than now) and every pre-call pool state.
C13_OfflineGrantWithinHeadroom ==
  [][last'.op = "calculateOfflineProgress"
     => LET larvaeGranted == RSub(game'.larvae, game.larvae)
            seedsGranted == RSub(game'.seeds, game.seeds)
        IN  /\ RLe(R(0), larvaeGranted)
            /\ RLe(larvaeGranted, RSub(game.maxLarvae, game.larvae))
            /\ RLe(R(0), seedsGranted)
            /\ RLe(seedsGranted, RSub(game.maxSeeds, game.seeds))]_vars

\* C14: calculateOfflineProgress sets lastSavedTime to the time it used as
\* now, and a second call at the same now changes neither larvae nor seeds.
C14_OfflineAtMostOnce ==
  [][last'.op = "calculateOfflineProgress"
     => /\ game'.lastSavedTime = now
        /\ (last.op = "calculateOfflineProgress" /\ now' = now
            => game'.larvae = game.larvae /\ game'.seeds = game.seeds)]_vars

\* C14: Scenario D granted 2 larvae, and a second call at the same time
\* granted nothing more.
C14_Witness ==
  /\ last.op = "calculateOfflineProgress" /\ steps = 2
  /\ game.queens = 1 /\ game.larvae = R(2)
  /\ game.lastSavedTime = now

----------------------------------------------------------------------------
(* The achievement store in a session: its three operations, among calls   *)
(* that raise and lower what the unlock conditions read.                   *)

MaxAchievementCalls == 4

\* A call of the achievement store.
AchievementCall(op, arg, ret) ==
  /\ steps' = steps + 1
  /\ last' = [op |-> op, arg |-> arg, ret |-> ret]
  /\ UNCHANGED <<game, prestige, idb, pending, now, timers, settings,
                 savedPrestige>>

CheckAchievements ==
  LET checked == checkAchievements([isUnlocked |-> achievements,
                                    toasts |-> toasts], World, 1)
  IN  /\ AchievementCall("checkAchievements", "none", "none")
      /\ achievements' = checked.isUnlocked
      /\ toasts' = checked.toasts

GetAchievementState ==
  /\ AchievementCall("getAchievementState", "none",
                     getAchievementState(achievements))
  /\ UNCHANGED <<achievements, toasts>>

\* The achievements of a saved record: none, what getAchievementState writes
\* (unlocked entries only), and a record that also lists a locked entry.
SavedAchievements ==
  {[id \in {} |-> TRUE],
   [id \in {"first_100_seeds"} |-> TRUE],
   [id \in {"first_100_seeds", "create_1_queen"} |-> id = "create_1_queen"]}

LoadAchievementState ==
  \E saved \in SavedAchievements :
    /\ AchievementCall("loadAchievementState", saved, "none")
    /\ achievements' = loadAchievementState(achievements, saved)
    /\ UNCHANGED toasts

AchievementsCall ==
  \/ CheckAchievements \/ GetAchievementState \/ LoadAchievementState
  \/ CollectSeedsManually \/ UpgradeSeedStorage \/ Tick \/ LoadPrestigeState

AchievementsNext == steps < MaxAchievementCalls /\ AchievementsCall

SpecAchievements == Init /\ [][AchievementsNext]_vars

\* The same session with the saved achievements loaded where the application
\* loads them, at its start.
UnlocksCall ==
  \/ CheckAchievements \/ GetAchievementState
  \/ steps = 0 /\ LoadAchievementState
  \/ CollectSeedsManually \/ UpgradeSeedStorage \/ Tick \/ LoadPrestigeState

UnlocksNext == steps < MaxAchievementCalls /\ UnlocksCall

SpecUnlocks == Init /\ [][UnlocksNext]_vars

\* C15: isUnlocked is a one-way latch: once true for an achievement it is
\* never false in a later state, across checkAchievements,
\* getAchievementState, loadAchievementState with any saved state, ticks,
\* spends and prestiges.
C15_UnlockedIsLatched ==
  [][\A id \in AchievementIds : achievements[id] => achievements'[id]]_vars

\* The toasts of an achievement shown so far.
Notified(id, shown) ==
  Cardinality({i \in 1..Len(shown) : shown[i] = AchievementName[id]})

\* The names of the achievements of the list from entry i on that are in ids.
RECURSIVE NamesOf(_, _)
NamesOf(ids, i) ==
  IF i > Len(AchievementList) THEN <<>>
  ELSE (IF AchievementList[i] \in ids
        THEN <<AchievementName[AchievementList[i]]>> ELSE <<>>)
       \o NamesOf(ids, i + 1)

\* C16: checkAchievements unlocks exactly the locked achievements whose
\* unlockCondition holds and emits one notification for each of them; an
\* achievement already unlocked is not notified again, and over any sequence
\* of checkAchievements calls each achievement is notified at most once.
C16_UnlocksExactlyOnce ==
  [][/\ last'.op = "checkAchievements"
        => LET due == {id \in AchievementIds :
                         ~achievements[id] /\ unlockCondition(id, World)}
           IN  /\ achievements' =
                    [id \in AchievementIds |-> achievements[id] \/ id \in due]
               /\ toasts' = toasts \o NamesOf(due, 1)
     /\ \A id \in AchievementIds : Notified(id, toasts') =< 1]_vars

\* C16: a second checkAchievements, after seeds were collected, unlocked
\* 'first_100_seeds' and notified it, and did not notify 'create_1_queen',
\* unlocked by the first, again.
C16_Witness ==
  /\ last.op = "checkAchievements"
  /\ toasts = <<"Royalty Raiser", "Seed Collector">>
  /\ achievements["first_100_seeds"] /\ achievements["create_1_queen"]
  /\ ~achievements["first_1000_seeds"]

----------------------------------------------------------------------------
(* The game loop: starting it, stopping it, and the ticks of the timers    *)
(* that are active.                                                        *)

MaxLoopCalls == 6

\* A call that starts or stops the loop.
LoopCall(op, w) ==
  /\ steps' = steps + 1
  /\ last' = [op |-> op, arg |-> "none", ret |-> "none"]
  /\ game' = w.game
  /\ timers' = w.timers
  /\ UNCHANGED <<prestige, idb, pending, now, toasts, achievements, settings,
                 savedPrestige>>

StartGameLoop ==
  LoopCall("startGameLoop", startGameLoop([game |-> game, timers |-> timers]))

StopGameLoop ==
  LoopCall("stopGameLoop", stopGameLoop([game |-> game, timers |-> timers]))

\* A second has passed for one of the active timers: its callback runs.
TimerTick == \E handle \in timers.active : Tick

LoopNext ==
  steps < MaxLoopCalls /\ (StartGameLoop \/ StopGameLoop \/ TimerTick)

SpecLoop == Init /\ [][LoopNext]_vars

\* C17: at most one tick timer is active at any time, and it is the one
\* gameLoopInterval holds; stopGameLoop clears it and sets gameLoopInterval to
\* null; a repeated stopGameLoop and a repeated startGameLoop change nothing;
\* after stop followed by start exactly one timer ticks.
C17_OneTimer ==
  [][/\ Cardinality(timers'.active) =< 1
     /\ timers'.active =
          (IF game'.gameLoopInterval = NoTimer THEN {}
           ELSE {game'.gameLoopInterval})
     /\ last'.op = "stopGameLoop"
        => /\ game'.gameLoopInterval = NoTimer /\ timers'.active = {}
           /\ game.gameLoopInterval = NoTimer
              => game' = game /\ timers' = timers
     /\ last'.op = "startGameLoop"
        => /\ Cardinality(timers'.active) = 1
           /\ game.gameLoopInterval # NoTimer
              => game' = game /\ timers' = timers]_vars

\* C17: the loop was started, stopped and started again: the second timer is
\* the only one active.
C17_Witness ==
  /\ last.op = "startGameLoop"
  /\ timers.created = 2 /\ timers.active = {2}
  /\ game.gameLoopInterval = 2

\* The two stores of a fresh session after it has loaded what the stores w
\* save at the time currentTime.
SavedAndLoaded(w, currentTime) ==
  [game |-> loadFinish(loadFields(GameState0 @@ StorageExt0,
                                  saveBlob(w.game, currentTime)), currentTime),
   prestige |-> loadPrestigeState(PrestigeState0, getPrestigeState(w.prestige))]

\* C18: saving and then loading into a fresh session yields the same pools
\* (ants, seeds, queens, larvae), the same caps, the same cost for every
\* upgrade of the shop, one-time upgrades included, and the same production
\* rates.
C18_SaveLoadRoundTrip ==
  LET loaded == SavedAndLoaded(World, now)
  IN  /\ loaded.game.ants = game.ants /\ loaded.game.seeds = game.seeds
      /\ loaded.game.queens = game.queens /\ loaded.game.larvae = game.larvae
      /\ loaded.game.maxSeeds = game.maxSeeds
      /\ loaded.game.maxLarvae = game.maxLarvae
      /\ \A id \in ShopIds :
           loaded.prestige.prestigeShop[id] = prestige.prestigeShop[id]
      /\ loaded.game.larvaeProductionRate = game.larvaeProductionRate
      /\ loaded.game.collectionRatePerAnt = game.collectionRatePerAnt

----------------------------------------------------------------------------
(* The loaders, handed saves of an earlier schema version: records from    *)
(* which some of the fields are missing.                                   *)

MaxLoadCalls == 3

\* rec without the fields in missing.
Without(rec, missing) == [f \in DOMAIN rec \ missing |-> rec[f]]

MissingGameFields ==
  {{}, {"ants", "maxSeeds", "larvae"}, {"lastSavedTime", "seedStorageUpgradeCost"},
   {"storagePrestigeCost"},
   {"productionPrestigeCost", "queenPrestigeCost", "betterAntsPrestigeCost"}}

OlderGames == {Without(saved, missing) : saved \in SavedGames,
                                         missing \in MissingGameFields}

MissingPrestigeFields ==
  {{}, {"prestigePoints", "timesPrestiged"}, {"storagePrestigeCost"},
   {"eliteAntsStoreUpgradeCost", "betterAntsDefensePrestigeCost",
    "startWithAntsPrestigeCost", "autoEliteAntsCreation"}}

OlderPrestige == {Without(saved, missing) : saved \in SavedPrestige,
                                            missing \in MissingPrestigeFields}

\* Settings an earlier session saved with getSettingsState().
EarlierSettings ==
  {[SettingsState0 EXCEPT !.showPrestigeWarning = FALSE,
                          !.autoThresholds.autoSeedStorageUpgrade = 80,
                          !.autoThresholds.autoCreateHousing = 50]}

OlderSettings ==
  {getSettingsState(s) : s \in EarlierSettings}
  \cup {[settings |-> Without(s, {"showPrestigeWarning"})] : s \in EarlierSettings}
  \cup {[settings |-> Without(s, {"autoThresholds"})] : s \in EarlierSettings}
  \cup {[settings |->
           [s EXCEPT !.autoThresholds =
                       Without(s.autoThresholds,
                               {"autoCreateHousing", "autoQueenCreationAnts"})]] :
          s \in EarlierSettings}
  \cup {Without(getSettingsState(s), {"settings"}) : s \in EarlierSettings}

InitLoad ==
  /\ game = GameState0 @@ StorageExt0
  /\ prestige = PrestigeState0
  /\ idb \in {NoSave} \cup OlderGames
  /\ pending = <<>>
  /\ now = 0
  /\ toasts = <<>>
  /\ last = [op |-> "init", arg |-> "none", ret |-> "none"]
  /\ steps = 0
  /\ achievements = Achievements0
  /\ timers = Timers0
  /\ settings = SettingsState0
  /\ savedPrestige = NoSave

\* loadPrestigeState(savedState) with an older save.
LoadOlderPrestigeState ==
  \E savedState \in OlderPrestige :
    /\ Called("loadPrestigeState", "older", "none")
    /\ prestige' = loadPrestigeState(prestige, savedState)
    /\ UNCHANGED <<game, idb, pending, now, toasts>>

\* loadSettingsState(state)
LoadSettingsState ==
  \E state \in OlderSettings :
    /\ steps' = steps + 1
    /\ last' = [op |-> "loadSettingsState", arg |-> "none", ret |-> "none"]
    /\ settings' = loadSettingsState(settings, state)
    /\ UNCHANGED <<game, prestige, idb, pending, now, toasts, achievements,
                   timers, savedPrestige>>

LoadCall == LoadGameState \/ LoadOlderPrestigeState \/ LoadSettingsState

LoadNext ==
  \/ steps < MaxLoadCalls /\ LoadCall
  \/ LoadAfterGet
  \/ LoadDone

SpecLoad == InitLoad /\ [][LoadNext]_vars

\* C19: whatever fields the saved records lack, after the loaders every
\* resource, every cap, every prestige-shop cost of both stores and every
\* auto-threshold is a defined number.
C19_LoadedFieldsDefined ==
  /\ \A f \in {"ants", "seeds", "larvae", "maxSeeds", "maxLarvae"} :
       game[f] # Undefined
  /\ game.queens \in Nat
  /\ \A id \in DOMAIN game.prestigeShop : game.prestigeShop[id] # Undefined
  /\ \A id \in DOMAIN prestige.prestigeShop : prestige.prestigeShop[id] \in Nat
  /\ \A f \in AutoThresholdIds : settings.autoThresholds[f] \in Nat

----------------------------------------------------------------------------
(* A session that saves and loads while the durable store may fail.        *)

MaxStorageCalls == 4

StorageCall ==
  \/ Tick \/ CollectSeedsManually \/ CreateMaxLarvae \/ GameBuyUpgrade \/ Elapse
  \/ SaveGameState \/ LoadGameState

StorageNext ==
  \/ steps < MaxStorageCalls /\ StorageCall
  \/ SaveDone
  \/ LoadAfterGet
  \/ LoadDone

SpecStorage == Init /\ [][StorageNext]_vars

\* A saveGameState or loadGameState call has ended with this step.
StorageCallEnded ==
  /\ Len(pending') < Len(pending)
  /\ last'.op \in {"saveGameState", "loadGameState"}

\* The store failed the read of the loadGameState that ended with this step.
ReadFailed == last'.op = "loadGameState" /\ last'.arg = "failed"

\* C20: a failure of the durable store leaves the in-memory state as it was,
\* a save never changes it, and when loadGameState has ended the game is
\* marked loaded, whether or not the read succeeded.
C20_StorageFailureTolerated ==
  [][StorageCallEnded =>
       /\ ReadFailed => game' = game /\ prestige' = prestige
       /\ last'.op = "saveGameState" => game' = game /\ prestige' = prestige
       /\ last'.op = "loadGameState" => game'.loaded]_vars

\* C21: the record a saveGameState writes is the store as it was when the
\* call was made, whatever ticks, purchases and other calls ran while the
\* write was pending.
C21_SaveWritesSnapshot ==
  [][(last'.op = "saveGameState" /\ idb' # idb) =>
       \E i \in 1..Len(pending) :
         /\ pending[i].fn = "saveGameState"
         /\ idb' = saveBlob(pending[i].before.game, pending[i].before.now)]_vars

\* A save has been written after the store changed under it.
C21_Witness ==
  /\ last.op = "saveGameState" /\ last.arg = "completed"
  /\ idb \notin {NoSave} \cup SavedGames
  /\ idb.seeds # game.seeds
  /\ idb.lastSavedTime # now

----------------------------------------------------------------------------
(* The prestige store over the lifetime of a save: sessions that start     *)
(* from what an earlier one saved with getPrestigeState().                 *)

MaxSaveCalls == 5

InitSaves ==
  /\ game = GameState0 @@ StorageExt0
  /\ prestige = PrestigeState0
  /\ idb = NoSave
  /\ pending = <<>>
  /\ now = 0
  /\ toasts = <<>>
  /\ last = [op |-> "init", arg |-> "none", ret |-> "none"]
  /\ steps = 0
  /\ achievements = Achievements0
  /\ timers = Timers0
  /\ settings = SettingsState0
  /\ savedPrestige \in {NoSave} \cup SavedPrestige

\* The session saves the prestige store: the object getPrestigeState() returns
\* is what the durable store holds from now on.
SavePrestigeState ==
  /\ steps' = steps + 1
  /\ last' = [op |-> "getPrestigeState", arg |-> "none", ret |-> "none"]
  /\ savedPrestige' = getPrestigeState(prestige)
  /\ UNCHANGED <<game, prestige, idb, pending, now, toasts, achievements,
                 timers, settings>>

\* The page is loaded again: the stores are constructed anew and
\* loadPrestigeState is handed the saved state, if there is one.  toasts
\* keeps the notifications the player has been shown so far.
StartSession ==
  /\ steps' = steps + 1
  /\ last' = [op |-> "loadPrestigeState", arg |-> "newSession", ret |-> "none"]
  /\ game' = GameState0 @@ StorageExt0
  /\ prestige' = IF savedPrestige = NoSave
                 THEN PrestigeState0
                 ELSE loadPrestigeState(PrestigeState0, savedPrestige)
  /\ pending' = <<>>
  /\ achievements' = Achievements0
  /\ timers' = Timers0
  /\ settings' = SettingsState0
  /\ UNCHANGED <<idb, now, toasts, savedPrestige>>

SavesCall ==
  BuyUpgrade \/ BuyMaxUpgrade \/ SavePrestigeState \/ StartSession

SavesNext == steps < MaxSaveCalls /\ SavesCall

SpecSaves == InitSaves /\ [][SavesNext]_vars

\* Everything the prestige store holds has been saved.
PrestigeSaved == savedPrestige = getPrestigeState(prestige)

\* C22: no prestige-shop cost ever becomes lower: not by a purchase, and not
\* when a session starts from a save that held everything the store held.
C22_CostsNeverDecrease ==
  [][(last'.arg = "newSession" => PrestigeSaved) =>
       \A id \in ShopIds : prestige'.prestigeShop[id] >= prestige.prestigeShop[id]]_vars

----------------------------------------------------------------------------
(* The prestige cycle with both ways of buying.                            *)

BuyMaxCycleUpgrade ==
  \E upgradeId \in {"startWithAnts", "betterAnts"} :
    PrestigeCall("buyMaxUpgrade", upgradeId, buyMaxUpgrade(World, upgradeId))

CycleNext ==
  \/ steps < MaxPrestigeCalls /\ (PrestigeCycleCall \/ BuyMaxCycleUpgrade)
  \/ LoadAfterGet \/ LoadDone
  \/ PrestigeCredit \/ ResetAfterDel \/ ResetReplay \/ ResetDone
  \/ PrestigeSave \/ SaveDone

SpecCycle == Init /\ [][CycleNext]_vars

\* What the purchase of this step paid: the cost before a buyUpgrade, the
\* successive costs of a buyMaxUpgrade.
CostPaid ==
  IF last'.op = "buyUpgrade"
  THEN prestige.prestigeShop[last'.arg]
  ELSE CompoundedSum(prestige.prestigeShop[last'.arg],
                     Len(prestige'.purchasedUpgrades)
                       - Len(prestige.purchasedUpgrades))

\* C23: timesPrestiged never decreases; prestigePoints decreases only in a
\* buyUpgrade or buyMaxUpgrade step, by the cost paid; and prestigePoints is
\* never negative.
C23_PointsOnlySpent ==
  [][/\ prestige'.timesPrestiged >= prestige.timesPrestiged
     /\ prestige'.prestigePoints < prestige.prestigePoints =>
          /\ last'.op \in {"buyUpgrade", "buyMaxUpgrade"}
          /\ prestige.prestigePoints - prestige'.prestigePoints = CostPaid
     /\ prestige.prestigePoints >= 0
     /\ prestige'.prestigePoints >= 0]_vars

\* A buyMaxUpgrade after a prestige has paid for several purchases.
C23_Witness ==
  /\ last.op = "buyMaxUpgrade"
  /\ prestige.timesPrestiged \in {4, 6}
  /\ Len(prestige.purchasedUpgrades) >= 2
  /\ prestige.prestigePoints < 50

----------------------------------------------------------------------------
(* Prestiges over several sessions, each session starting from a save that *)
(* holds what the session before it ended with.                            *)

MaxMilestoneCalls == 6

\* Saves of sessions that ended one or two prestiges before the fifth.
MilestoneSaves ==
  {getPrestigeState([PrestigeState0 EXCEPT !.prestigePoints = 10,
                                           !.timesPrestiged = n]) : n \in {3, 4}}

InitMilestone ==
  /\ game = GameState0 @@ StorageExt0
  /\ prestige = PrestigeState0
  /\ idb \in SavedGames
  /\ pending = <<>>
  /\ now = 0
  /\ toasts = <<>>
  /\ last = [op |-> "init", arg |-> "none", ret |-> "none"]
  /\ steps = 0
  /\ achievements = Achievements0
  /\ timers = Timers0
  /\ settings = SettingsState0
  /\ savedPrestige \in MilestoneSaves

\* A session ends with nothing in flight and everything saved (or nothing
\* done yet), and the next one starts.
ResumeSession ==
  /\ pending = <<>>
  /\ prestige = PrestigeState0 \/ PrestigeSaved
  /\ StartSession

MilestoneCall ==
  ResumeSession \/ LoadGameState \/ Prestige \/ SavePrestigeState

MilestoneNext ==
  \/ steps < MaxMilestoneCalls /\ MilestoneCall
  \/ LoadAfterGet \/ LoadDone
  \/ PrestigeCredit \/ ResetAfterDel \/ ResetReplay \/ ResetDone
  \/ PrestigeSave \/ SaveDone

SpecMilestone == InitMilestone /\ [][MilestoneNext]_vars

\* The number of Elite Ants notifications among the toasts t.
EliteAntsToasts(t) ==
  Cardinality({i \in 1..Len(t) : t[i] = "eliteAntsUnlocked"})

----------------------------------------------------------------------------
(* The prestige shop with applyPrestigeUpgrade called on its own, as the   *)
(* replay after a prestige calls it.                                       *)

MaxApplyCalls == 3

ApplyPrestigeUpgrade ==
  \E upgradeId \in UpgradeIds, fromPrestige \in BOOLEAN :
    PrestigeCall("applyPrestigeUpgrade",
                 [id |-> upgradeId, fromPrestige |-> fromPrestige],
                 [w |-> applyPrestigeUpgrade(World, upgradeId, fromPrestige),
                  ret |-> "none"])

ApplyNext ==
  steps < MaxApplyCalls /\ (LoadPrestigeState \/ BuyUpgrade \/ ApplyPrestigeUpgrade)

SpecApply == Init /\ [][ApplyNext]_vars

\* What a purchase of the upgrade does to the two stores w beyond the
\* balance, the cost and the history: buyUpgrade with the balance at the cost,
\* those three fields put back.
PurchaseEffect(w, upgradeId) ==
  LET p == w.prestige
      bought == buyUpgrade([w EXCEPT !.prestige.prestigePoints =
                                        p.prestigeShop[upgradeId]], upgradeId).w
  IN  [bought EXCEPT !.prestige.prestigePoints = p.prestigePoints,
                     !.prestige.prestigeShop = p.prestigeShop,
                     !.prestige.purchasedUpgrades = p.purchasedUpgrades]

\* C25: applyPrestigeUpgrade(id, true) changes nothing for 'betterAnts' and
\* 'betterAntsDefense', whose entries have applyOnPrestige false; for every
\* other upgrade of the shop, and for every upgrade when fromPrestige is
\* false, it does to the stores what a purchase of the upgrade does.
C25_ApplyOnPrestigeFlag ==
  [][last'.op = "applyPrestigeUpgrade" /\ last'.arg.id \in ShopIds
     => IF last'.arg.fromPrestige
           /\ last'.arg.id \in {"betterAnts", "betterAntsDefense"}
        THEN StoresUnchanged
        ELSE /\ game' = PurchaseEffect(World, last'.arg.id).game
             /\ prestige' = PurchaseEffect(World, last'.arg.id).prestige]_vars

\* 'betterAnts' was bought (attack 2 -> 2.2) and then applied from a prestige,
\* which left the attack where it was.
C25_Witness ==
  /\ last.op = "applyPrestigeUpgrade"
  /\ last.arg.id = "betterAnts" /\ last.arg.fromPrestige
  /\ upgradePurchased(prestige, "betterAnts")
  /\ game.attackPerAnt = Q(11, 5)

----------------------------------------------------------------------------
(* Ticks in a session whose save lists 'autoLarvae' among the purchased    *)
(* upgrades: the replay after a prestige switches autoLarvaeCreation on.   *)

MaxTickCalls == 5

AutoLarvaeSaves ==
  {saveBlob([g EXCEPT !.purchasedUpgrades = <<"autoLarvae">>], EarlierSaveTime) :
     g \in EarlierGames}

InitTick ==
  /\ game = GameState0 @@ StorageExt0
  /\ prestige = PrestigeState0
  /\ idb \in AutoLarvaeSaves
  /\ pending = <<>>
  /\ now = 0
  /\ toasts = <<>>
  /\ last = [op |-> "init", arg |-> "none", ret |-> "none"]
  /\ steps = 0
  /\ achievements = Achievements0
  /\ timers = Timers0
  /\ settings = SettingsState0
  /\ savedPrestige = NoSave

TickStages ==
  LET staged == tickStages(World, [isUnlocked |-> achievements, toasts |-> toasts])
  IN  /\ steps' = steps + 1
      /\ last' = [op |-> "tickStages", arg |-> "none", ret |-> "none"]
      /\ game' = staged.w.game
      /\ achievements' = staged.a.isUnlocked
      /\ toasts' = staged.a.toasts
      /\ UNCHANGED <<prestige, idb, pending, now, timers, settings, savedPrestige>>

TickCall ==
  TickStages \/ CollectSeedsManually \/ CreateAnts \/ LoadGameState \/ GamePrestige

TickNext ==
  \/ steps < MaxTickCalls /\ TickCall
  \/ LoadAfterGet \/ LoadDone \/ ResetAfterDel \/ ResetReplay \/ ResetDone

SpecTick == InitTick /\ [][TickNext]_vars

\* The pools after the production of one second, cut to the caps.
Accrued(g) ==
  [g EXCEPT
    !.larvae = RMin(RAdd(g.larvae,
                         RDiv(RMul(g.larvaeProductionRate, R(g.queens)), R(60))),
                    g.maxLarvae),
    !.seeds = RMin(RAdd(g.seeds, RDiv(RMul(g.collectionRatePerAnt, g.ants), R(60))),
                   g.maxSeeds)]

----------------------------------------------------------------------------
(* The locked entries of the prestige shop, in a session whose save holds  *)
(* enough points for Elite Ants.                                           *)

MaxUnlockCalls == 5

UnlockSaves ==
  {getPrestigeState([PrestigeState0 EXCEPT !.prestigePoints = 600,
                                           !.timesPrestiged = n]) : n \in {4, 5}}

LoadUnlockState ==
  \E savedState \in UnlockSaves :
    /\ prestige = PrestigeState0
    /\ Called("loadPrestigeState", savedState.prestigePoints, "none")
    /\ prestige' = loadPrestigeState(prestige, savedState)
    /\ UNCHANGED <<game, idb, pending, now, toasts>>

UnlockUpgradeIds == UnlockedWhenIds \cup {"autoAnts"}

BuyUnlockUpgrade ==
  \E upgradeId \in UnlockUpgradeIds :
    PrestigeCall("buyUpgrade", upgradeId, buyUpgrade(World, upgradeId))

UnlockCall == LoadUnlockState \/ LoadGameState \/ Prestige \/ BuyUnlockUpgrade

UnlockNext ==
  \/ steps < MaxUnlockCalls /\ UnlockCall
  \/ LoadAfterGet \/ LoadDone
  \/ PrestigeCredit \/ ResetAfterDel \/ ResetReplay \/ ResetDone
  \/ PrestigeSave \/ SaveDone

SpecShopUnlocks == Init /\ [][UnlockNext]_vars

\* C27: in every state the page finds Elite Ants unlocked exactly when
\* timesPrestiged is at least 5, and Auto Elite Ants Creation, Elite Ants
\* Store Upgrade and Royal Jelly unlocked exactly when 'eliteAnts' is among the
\* purchased upgrades, the state a purchase of Elite Ants produces included.
C27_UnlockedFollowsState ==
  /\ isUpgradeUnlocked(prestige, "eliteAnts") <=> prestige.timesPrestiged >= 5
  /\ \A upgradeId \in {"autoEliteAntsCreation", "eliteAntsStoreUpgrade", "royalJelly"} :
       isUpgradeUnlocked(prestige, upgradeId)
         <=> \E i \in 1..Len(prestige.purchasedUpgrades) :
               prestige.purchasedUpgrades[i] = "eliteAnts"

\* Elite Ants was locked when the session started, the fifth prestige unlocked
\* it, and its purchase has just unlocked the three entries that wait for it.
C27_Witness ==
  /\ last.op = "buyUpgrade" /\ last.arg = "eliteAnts" /\ last.ret = TRUE
  /\ prestige.timesPrestiged = 5
  /\ \E i \in 1..Len(toasts) : toasts[i] = "eliteAntsUnlocked"
  /\ \A upgradeId \in UnlockedWhenIds : isUpgradeUnlocked(prestige, upgradeId)

----------------------------------------------------------------------------
(* resetGameState called on its own, with and without debug, next to the   *)
(* reset the game store's prestige starts.                                 *)

MaxResetCalls == 4

\* resetGameState(debug): the call, up to await del('idleGameState').
ResetGameState ==
  \E debug \in BOOLEAN :
    /\ Len(pending) < MaxInFlight
    /\ Called("resetGameState", IF debug THEN "debug" ELSE "noDebug", "none")
    /\ pending' = Append(pending,
                         [Task("resetGameState", "del", debug, NoSave)
                            EXCEPT !.before = Snapshot(World)])
    /\ UNCHANGED <<game, prestige, idb, now, toasts>>

ResetCall == LoadGameState \/ GameBuyUpgrade \/ GamePrestige \/ ResetGameState

ResetNext ==
  \/ steps < MaxResetCalls /\ ResetCall
  \/ LoadAfterGet \/ LoadDone \/ ResetAfterDel \/ ResetReplay \/ ResetDone

SpecReset == Init /\ [][ResetNext]_vars

\* A resetGameState with this debug argument is in flight.
ResetInFlight(debug) ==
  \E i \in 1..Len(pending) :
    pending[i].fn = "resetGameState" /\ pending[i].debug = debug

\* C28: no step of a resetGameState without debug changes purchasedUpgrades or
\* a cost of the prestige shop or lowers prestigePoints, and none touches the
\* prestige store; the field reset of a resetGameState with debug leaves
\* prestigePoints 0 and purchasedUpgrades empty.
C28_PrestigeExemptFromReset ==
  [][last'.op = "resetGameState" =>
       /\ prestige' = prestige
       /\ ~ResetInFlight(TRUE) =>
            /\ game'.purchasedUpgrades = game.purchasedUpgrades
            /\ game'.prestigeShop = game.prestigeShop
            /\ RGe(game'.prestigePoints, game.prestigePoints)
       /\ (~ResetInFlight(FALSE) /\ last'.arg = "fieldsReset") =>
            /\ game'.prestigePoints = R(0)
            /\ game'.purchasedUpgrades = <<>>]_vars

\* The reset a prestige started has reset the fields and replayed a purchase
\* made before it: the points and the purchase are still there.
C28_Witness ==
  /\ last.op = "resetGameState" /\ last.arg = "replayed"
  /\ ResetInFlight(FALSE)
  /\ Len(game.purchasedUpgrades) > 0
  /\ RGt(game.prestigePoints, R(0))
  /\ game.ants = R(0)

----------------------------------------------------------------------------
(* A load while the session goes on: the loop may be running and the user  *)
(* may act while loadGameState waits for the other stores.                 *)

MaxReloadCalls == 4

ReloadCall ==
  \/ StartGameLoop \/ TimerTick \/ CollectSeedsManually \/ CreateLarvae
  \/ Elapse \/ LoadGameState

ReloadNext ==
  \/ steps < MaxReloadCalls /\ ReloadCall
  \/ LoadAfterGet \/ LoadDone

SpecReload == Init /\ [][ReloadNext]_vars

\* A loadGameState has restored the saved fields and has not yet applied the
\* offline progress.
RestoredNotReconciled ==
  \E i \in 1..Len(pending) :
    pending[i].fn = "loadGameState" /\ pending[i].at = "loadOtherStores"

Pools(g) == <<g.larvae, g.seeds, g.ants, g.queens>>

\* C29: once a loadGameState has restored the saved fields, the next step that
\* changes a pool is its own calculateOfflineProgress (no tick and no user
\* action runs on the restored state before it), and a load that ends has
\* applied the offline progress up to the current time and marked the game
\* loaded.
C29_OfflineRightAfterRestore ==
  [][/\ RestoredNotReconciled =>
          \/ Pools(game') = Pools(game)
          \/ last'.op = "loadGameState" /\ last'.arg = "completed"
     /\ (last'.op = "loadGameState" /\ last'.arg = "completed") =>
          game'.lastSavedTime = now /\ game'.loaded]_vars

----------------------------------------------------------------------------
(* Purchases over the whole catalog, in a session whose save holds enough  *)
(* points for its dearest entries.                                         *)

MaxCatalogCalls == 3

CatalogCall == LoadUnlockState \/ BuyUpgrade

CatalogNext == steps < MaxCatalogCalls /\ CatalogCall

SpecCatalog == Init /\ [][CatalogNext]_vars

\* The two stores without the balance, the costs and the purchase history.
BeyondPurchase(w) ==
  [w EXCEPT !.prestige.prestigePoints = 0,
            !.prestige.prestigeShop = PrestigeShop,
            !.prestige.purchasedUpgrades = <<>>]

\* C30: a successful buyUpgrade of an entry of the prestige shop changes the
\* stores in more than the balance, the cost and the purchase history: the
\* effect map holds a routine for every entry of the shop.
C30_PurchaseHasEffect ==
  [][(last'.op = "buyUpgrade" /\ last'.ret = TRUE /\ last'.arg \in ShopIds) =>
       BeyondPurchase(World') # BeyondPurchase(World)]_vars

----------------------------------------------------------------------------
(* The reset a prestige of the game store starts, when the delete fails.   *)

\* C31: when the reset that a prestige of the game store started has ended,
\* whether or not its del('idleGameState') succeeded, the ants and the queens
\* are back at their initial values (0 and 1): the points are never credited
\* with the holdings that earned them kept.
C31_CreditedImpliesReset ==
  [][(last'.op = "resetGameState" /\ last'.arg \in {"completed", "failed"}) =>
       game'.ants = R(0) /\ game'.queens = 1]_vars

----------------------------------------------------------------------------
(* The costs of the prestige shop put back after purchases.                *)

MaxCostCalls == 3

ResetPrestigeShopCosts ==
  /\ Called("resetPrestigeShopCosts", "none", "none")
  /\ prestige' = resetPrestigeShopCosts(prestige)
  /\ UNCHANGED <<game, idb, pending, now, toasts>>

CostCall == LoadUnlockState \/ BuyUpgrade \/ ResetPrestigeShopCosts

CostNext == steps < MaxCostCalls /\ CostCall

SpecCosts == Init /\ [][CostNext]_vars

\* C32: after resetPrestigeShopCosts every entry of the prestige shop has the
\* cost it has in the initial catalog, whatever was purchased before.
C32_CostsBackToCatalog ==
  [][last'.op = "resetPrestigeShopCosts" =>
       \A id \in ShopIds : prestige'.prestigeShop[id] = PrestigeShop[id]]_vars

----------------------------------------------------------------------------
(* The bulk operations of the game store against their single steps.       *)

\* createLarvae, createAnts and buyQueen called until a call changes nothing.
RECURSIVE RepeatCreateLarvae(_)
RepeatCreateLarvae(g) ==
  IF createLarvae(g) = g THEN g ELSE RepeatCreateLarvae(createLarvae(g))

RECURSIVE RepeatCreateAnts(_)
RepeatCreateAnts(g) ==
  IF createAnts(g) = g THEN g ELSE RepeatCreateAnts(createAnts(g))

RECURSIVE RepeatBuyQueen(_)
RepeatBuyQueen(g) ==
  IF buyQueen(g) = g THEN g ELSE RepeatBuyQueen(buyQueen(g))

\* C33: createMaxLarvae, createMaxAnts and buyMaxQueens end in the state that
\* createLarvae, createAnts and buyQueen repeated until they fail end in,
\* fractional larvae included, and leave no pool negative.
C33_BulkIsRepeatedSingle ==
  [][/\ last'.op = "createMaxLarvae" => game' = RepeatCreateLarvae(game)
     /\ last'.op = "createMaxAnts" => game' = RepeatCreateAnts(game)
     /\ last'.op = "buyMaxQueens" => game' = RepeatBuyQueen(game)
     /\ last'.op \in {"createMaxLarvae", "createMaxAnts", "buyMaxQueens"} =>
          /\ RGe(game'.larvae, R(0)) /\ RGe(game'.seeds, R(0))
          /\ RGe(game'.ants, R(0)) /\ game'.queens >= 0]_vars

----------------------------------------------------------------------------
(* The pools that count whole units, in a session that goes on from a save. *)

MaxWholeCalls == 3

WholeCall ==
  \/ LoadGameState \/ Tick \/ CreateAnts \/ CreateMaxAnts
  \/ BuyQueen \/ BuyMaxQueens \/ GamePrestige

WholeNext ==
  \/ steps < MaxWholeCalls /\ WholeCall
  \/ LoadAfterGet \/ LoadDone \/ ResetAfterDel \/ ResetReplay \/ ResetDone

SpecWhole == Init /\ [][WholeNext]_vars

\* C34: in every state reached by ticks, createAnts, createMaxAnts, buyQueen,
\* buyMaxQueens and prestige, ants and queens are non-negative whole numbers.
C34_AntsAndQueensWhole ==
  /\ IsWhole(game.ants) /\ RGe(game.ants, R(0))
  /\ game.queens \in Nat

----------------------------------------------------------------------------
(* Purchases of the entries that can be locked, by the store's two         *)
(* purchase operations.                                                    *)

MaxLockedCalls == 3

BuyMaxUnlockUpgrade ==
  \E upgradeId \in UnlockUpgradeIds :
    PrestigeCall("buyMaxUpgrade", upgradeId, buyMaxUpgrade(World, upgradeId))

LockedCall == LoadUnlockState \/ BuyUnlockUpgrade \/ BuyMaxUnlockUpgrade

LockedNext == steps < MaxLockedCalls /\ LockedCall

SpecLocked == Init /\ [][LockedNext]_vars

\* C35: in every state, 'eliteAnts' is among the purchased upgrades only if
\* timesPrestiged is at least 5, and 'autoEliteAntsCreation',
\* 'eliteAntsStoreUpgrade' and 'royalJelly' only if 'eliteAnts' is: nothing is
\* purchased while it is locked.
C35_NothingBoughtLocked ==
  /\ upgradePurchased(prestige, "eliteAnts") => prestige.timesPrestiged >= 5
  /\ \A upgradeId \in UnlockedWhenIds \ {"eliteAnts"} :
       upgradePurchased(prestige, upgradeId) => upgradePurchased(prestige, "eliteAnts")

----------------------------------------------------------------------------
(* The seed storage upgraded again and again, in a session whose save      *)
(* holds enough ants to fill the storage in one tick.                      *)

MaxSeedStorageCalls == 19

SeedRichSaves ==
  {saveBlob([GameState0 EXCEPT !.ants = R(6000), !.seeds = R(1000)],
            EarlierSaveTime)}

InitSeedStorage ==
  /\ game = GameState0 @@ StorageExt0
  /\ prestige = PrestigeState0
  /\ idb \in SeedRichSaves
  /\ pending = <<>>
  /\ now = 0
  /\ toasts = <<>>
  /\ last = [op |-> "init", arg |-> "none", ret |-> "none"]
  /\ steps = 0
  /\ achievements = Achievements0
  /\ timers = Timers0
  /\ settings = SettingsState0
  /\ savedPrestige = NoSave

\* collectSeedsManually(), with the default amount.
CollectSeed == GameCall("collectSeedsManually", 1, collectSeedsManually(game, 1))

SeedStorageCall == LoadGameState \/ Tick \/ CollectSeed \/ UpgradeSeedStorage

SeedStorageNext ==
  \/ steps < MaxSeedStorageCalls /\ SeedStorageCall
  \/ LoadAfterGet \/ LoadDone

SpecSeedStorage == InitSeedStorage /\ [][SeedStorageNext]_vars

\* C36 as claimed: in every state seedStorageUpgradeCost <= maxSeeds.
C36_UpgradeAttainable ==
  RLe(R(game.seedStorageUpgradeCost), game.maxSeeds)

\* C36: seedStorageUpgradeCost <= maxSeeds holds exactly until the ninth
\* upgradeSeedStorage: up to the eighth the cost (500 to 4074) is within the
\* cap (1000 to 4296), from the ninth on (5296 against 5155) it is above it.
C36_AttainableUntilNinth ==
  RLe(R(game.seedStorageUpgradeCost), game.maxSeeds)
    <=> game.seedStorageUpgradeCost <= 4074

\* The eighth upgrade has been bought: the next one can still be afforded at
\* the cap.
C36_Witness ==
  /\ last.op = "upgradeSeedStorage"
  /\ game.seedStorageUpgradeCost = 4074
  /\ game.maxSeeds = R(4296)

----------------------------------------------------------------------------
(* buyMaxUpgrade iteration by iteration.  The loop is synchronous: while   *)
(* it runs nothing else does, and it goes on to its next test at once.     *)

MaxBuyMaxCalls == 3

\* buyMaxUpgrade(upgradeId), up to the first test of the while loop.
BuyMaxBegin ==
  \E upgradeId \in UpgradeIds :
    /\ pending = <<>>
    /\ Called("buyMaxUpgrade", upgradeId,
              IF upgradeId \in ShopIds THEN "none" ELSE "invalid")
    /\ pending' = IF upgradeId \in ShopIds
                  THEN <<[Task("buyMaxUpgrade", "while", FALSE, NoSave)
                            EXCEPT !.before = World]>>
                  ELSE pending
    /\ UNCHANGED <<game, prestige, idb, now, toasts>>

\* buyMaxUpgrade is at the test of its while loop.
InBuyMaxLoop == pending # <<>> /\ pending[1].fn = "buyMaxUpgrade"

\* The test holds: one iteration.
BuyMaxIterate ==
  /\ InBuyMaxLoop
  /\ prestige.prestigePoints >= prestige.prestigeShop[last.arg]
  /\ game' = buyMaxIteration(World, last.arg).game
  /\ prestige' = buyMaxIteration(World, last.arg).prestige
  /\ UNCHANGED <<idb, pending, now, toasts, last, steps,
                 achievements, timers, settings, savedPrestige>>

\* The test fails: the loop ends and buyMaxUpgrade returns true.
BuyMaxReturn ==
  /\ InBuyMaxLoop
  /\ prestige.prestigePoints < prestige.prestigeShop[last.arg]
  /\ pending' = <<>>
  /\ last' = [last EXCEPT !.ret = "returned"]
  /\ UNCHANGED <<game, prestige, idb, now, toasts, steps,
                 achievements, timers, settings, savedPrestige>>

\* loadPrestigeState at the start of the session.
LoadSavedPrestige ==
  \E savedState \in SavedPrestige :
    /\ prestige = PrestigeState0
    /\ Called("loadPrestigeState", "savedState", "none")
    /\ prestige' = loadPrestigeState(prestige, savedState)
    /\ UNCHANGED <<game, idb, pending, now, toasts>>

BuyMaxCall == LoadSavedPrestige \/ BuyMaxBegin

BuyMaxNext ==
  \/ steps < MaxBuyMaxCalls /\ pending = <<>> /\ BuyMaxCall
  \/ BuyMaxIterate
  \/ BuyMaxReturn

SpecBuyMax ==
  /\ Init /\ [][BuyMaxNext]_vars
  /\ WF_prestige(BuyMaxIterate) /\ WF_pending(BuyMaxReturn)

\* C37: a buyMaxUpgrade that has entered its loop leaves it: the loop
\* performs finitely many iterations and the call returns.
C37_BuyMaxTerminates == InBuyMaxLoop ~> ~InBuyMaxLoop

\* buyMaxUpgrade has returned after more than one iteration, with the state
\* the loop run as a whole ends in.
C37_Witness ==
  /\ last.op = "buyMaxUpgrade" /\ last.ret = "returned"
  /\ amountOfUpgrade(prestige, last.arg) >= 3
  /\ prestige.prestigePoints < prestige.prestigeShop[last.arg]

----------------------------------------------------------------------------
(* Prestige points against the thresholds.                                 *)

\* r is below base * scalingFactor, the threshold of prestige count n (on
\* whole numbers: the factor is (5 + n) / 5 when it is not 1).
BelowThreshold(r, base, n, scaling) ==
  IF n < 5 \/ ~scaling THEN r < base ELSE 5 * r < base * (5 + n)

\* C38: calculatePrestigePointsFor returns 0 when the resource is below its
\* threshold and at least 1 when it has reached it; calculatePrestigePoints()
\* is 0 exactly when the ants are below the ant threshold and the queens
\* below 2, so that the Prestige button (disabled when the points are below
\* 1) is enabled exactly when prestige() would earn points.
C38_PointsIffThresholdReached ==
  /\ last.op = "calculatePrestigePointsFor" =>
       IF BelowThreshold(last.arg[1], last.arg[2], last.arg[3], last.arg[4])
       THEN last.ret = 0
       ELSE last.ret >= 1
  /\ last.op = "calculatePrestigePoints" =>
       /\ last.ret = 0
            <=> /\ BelowThreshold(game.ants[1], prestige.baseAntThreshold,
                                  prestige.timesPrestiged, TRUE)
                /\ game.queens < prestige.baseQueenThreshold
       /\ ~(last.ret < 1) <=> last.ret # 0

----------------------------------------------------------------------------
(* The tiers of an achievement family, from all achievements locked.       *)

MaxTierCalls == 5

TierCall ==
  \/ CheckAchievements
  \/ LoadGameState \/ Tick \/ CollectSeed \/ UpgradeSeedStorage
  \/ LoadPrestigeState

TierNext ==
  \/ steps < MaxTierCalls /\ TierCall
  \/ LoadAfterGet \/ LoadDone

SpecTiers == InitSeedStorage /\ [][TierNext]_vars

\* The pairs <<lower, higher>> of achievements of one family, by threshold.
TierPairs == {<<"first_100_seeds", "first_1000_seeds">>}

\* C39: the tiers of a family are nested: from all achievements locked, in
\* every state reached by checkAchievements among changes of the pools and of
\* timesPrestiged, an unlocked achievement of a higher threshold has every
\* achievement of a lower threshold of its family unlocked too.
C39_TiersNested ==
  \A pair \in TierPairs : achievements[pair[2]] => achievements[pair[1]]

\* C39: a checkAchievements left 'first_1000_seeds' unlocked after an earlier
\* one had unlocked 'first_100_seeds' alone, with fewer than 1000 seeds.
C39_Witness ==
  /\ last.op = "checkAchievements"
  /\ achievements["first_1000_seeds"] /\ achievements["first_100_seeds"]
  /\ \E i, j \in 1..Len(toasts) :
       /\ i + 1 < j
       /\ toasts[i] = "Seed Collector" /\ toasts[j] = "Seed Hoarder"

====
